---- MODULE Spec2Model ----
(***************************************************************************)
(* Ledger & Financial Product Engine of the banking back end.              *)
(*                                                                         *)
(* The state is the committed content of the PostgreSQL tables (accounts,  *)
(* transactions, deposits) plus, for every request in flight, its position *)
(* in the service function and the rows it has written inside its own,     *)
(* still uncommitted, database transaction.  Every `await` on the database *)
(* is an interleaving point.  Amounts are in hundredths of a currency unit *)
(* (a DECIMAL(18, 2) column holds 1 as 0.01).                              *)
(***************************************************************************)
EXTENDS Integers, FiniteSets, Sequences, TLC

\* ---------------------------------------------------------------- bounds
MaxProcs == 2          \* concurrent requests
MaxAmount == 2         \* largest amount a request carries
MaxInitBalance == 2    \* largest balance an account starts with
MaxFaults == 1         \* infrastructure failures (connectivity loss) injected
MaxTerm == 2           \* longest loan term, in months
MaxCalcTerm == 3       \* longest term handed to a calculator, in months
MaxClock == 2          \* milliseconds the clock advances
MaxRandom == 1         \* largest value of the random bytes of a reference number

Procs == 1..MaxProcs
Accounts == {1, 2}                       \* rows of table accounts
Users == {1, 2}
Owner(a) == a                            \* accounts.user_id
NullId == 0                              \* an absent (null) account id
UnknownId == Cardinality(Accounts) + 1   \* a well-formed id that names no row
AccountIds == Accounts \cup {NullId, UnknownId}
Amounts == 0..MaxAmount

SeedId(a) == 0 - a                       \* id of the row that funded account a
TxId(p) == p                             \* id of the row request p inserts
LegacyId == MaxProcs + 1                 \* id of a row this program did not insert
TxIds == {SeedId(a) : a \in Accounts} \cup {TxId(p) : p \in Procs} \cup {LegacyId}

NoRow == [from |-> NullId, to |-> NullId, amount |-> 0, status |-> "absent"]
NoDeposit == [account |-> NullId, principal |-> 0, current |-> 0, status |-> "absent",
              type |-> "fixed", rate |-> 0, term |-> 1, auto |-> FALSE, due |-> FALSE]
NoReq == [op |-> "none", from |-> NullId, to |-> NullId, amount |-> 0,
          user |-> 0, target |-> 0, early |-> FALSE]
NoResult == [status |-> "none", err |-> "", at |-> "", value |-> "none"]
NoRead == [bal |-> 0, avail |-> 0, seen |-> ""]
NoObs == [from |-> "unread", to |-> "unread"]
NoDelta == [debit |-> 0, credit |-> 0]

NoSweep == [sel |-> << >>, idx |-> 0, tried |-> << >>, failed |-> {}]
NoRef == [ts |-> 0 - 1, rnd |-> 0]
NoLoanCalc == [monthly_payment |-> 0, total_payment |-> 0, total_interest |-> 0,
               schedule |-> << >>]
NoDepositCalc == [interest_earned |-> 0, final_amount |-> 0, monthly_interest |-> 0]
NoCompoundCalc == [interest_earned |-> 0, final_amount |-> 0, monthly_interest_avg |-> 0]
NoCalc == [principal |-> 0, rate |-> 0, term |-> 0, applied |-> {},
           loan |-> NoLoanCalc, simple |-> NoDepositCalc, compound |-> NoCompoundCalc,
           row |-> NoDepositCalc]

Currencies == {"KZT", "USD"}             \* two of the values accounts.currency takes
Loans == {1}                             \* rows of table loans
UnknownLoan == Cardinality(Loans) + 1    \* a well-formed id that names no loan
NoLoan == [user |-> 0, account |-> NullId, principal |-> 0, remaining |-> 0,
           term |-> 0, status |-> "absent", nextDue |-> 0]

VARIABLES
  balance,      \* accounts.balance, committed
  available,    \* accounts.available_balance, committed
  status,       \* accounts.status, committed
  rowLock,      \* holder of the row lock on each account (0: free)
  txns,         \* table transactions, committed rows
  deposits,     \* table deposits, committed rows (one per openDeposit request)
  pc,           \* position of each request
  req,          \* arguments of each request
  rd,           \* values a request has read and is about to use
  txLocal,      \* status of the transactions row written in the request's open transaction
  result,       \* outcome returned to the caller
  legs,         \* history: ledger legs a request has committed
  delta,        \* history: balance change each committed leg made
  obs,          \* history: account status seen by createTransaction's validation
  faults,       \* infrastructure failures still to be injected
  initBalance,  \* history: balances at start
  currency,     \* accounts.currency (never updated)
  loans,        \* table loans, committed rows
  schedule,     \* table loan_payments, committed status of each loan's rows by payment_number
  loanLock,     \* holder of the row lock on each loan (0: free)
  depLock,      \* holder of the row lock on each deposit (0: free)
  schemaFits,   \* whether the tables accept what the loan service writes: FALSE for a
                \* database built from the schema file, whose loan_payments has none of
                \* the columns the service names and whose loans.status has no 'rejected'
  foreignKeys,  \* whether transactions.from_account_id and to_account_id REFERENCE
                \* accounts(id), as the schema file declares them: the INSERT then holds
                \* a key-share lock on both account rows until its transaction ends
  loanRead,     \* the loan row a request read under FOR UPDATE (its local `loan`)
  calc,         \* arguments and results of the calculators called on their own
  sweep,        \* processMaturedDeposits: the rows selected, the loop position and,
                \* as history, the deposits attempted
  clock,        \* Date.now(), in milliseconds
  reference,    \* the reference number each createTransaction generated
  refRows       \* transactions.reference_number of the committed rows

dbVars == <<balance, available, status, rowLock, txns, deposits>>
procVars == <<pc, req, rd, txLocal, result>>
histVars == <<legs, delta, obs, faults, initBalance>>
prodVars == <<currency, loans, schedule, loanLock, depLock, schemaFits, foreignKeys, loanRead>>
auxVars == <<calc, sweep, clock, reference, refRows>>
vars == <<balance, available, status, rowLock, txns, deposits,
          pc, req, rd, txLocal, result, legs, delta, obs, faults, initBalance,
          currency, loans, schedule, loanLock, depLock, schemaFits, foreignKeys, loanRead,
          calc, sweep, clock, reference, refRows>>

\* ------------------------------------------------------------ initial state
\* accounts are created with balance 0 (createAccount) and funded by a
\* completed to-only transaction; no other rows exist
SeedRow(b, a) ==
  IF b = 0 THEN NoRow
  ELSE [from |-> NullId, to |-> a, amount |-> b, status |-> "completed"]

\* the account references of table transactions are in force or not,
\* depending on how the database was set up
AnyDatabase == foreignKeys \in BOOLEAN
\* a database set up from the schema file
SchemaDatabase == foreignKeys = TRUE

InitRequests ==
  /\ rowLock = [a \in Accounts |-> 0]
  /\ status = [a \in Accounts |-> "active"]
  /\ deposits = [p \in Procs |-> NoDeposit]
  /\ pc = [p \in Procs |-> "idle"]
  /\ req = [p \in Procs |-> NoReq]
  /\ rd = [p \in Procs |-> NoRead]
  /\ txLocal = [p \in Procs |-> "none"]
  /\ result = [p \in Procs |-> NoResult]
  /\ legs = [p \in Procs |-> {}]
  /\ delta = [p \in Procs |-> NoDelta]
  /\ obs = [p \in Procs |-> NoObs]
  /\ faults = MaxFaults

SeedTxns(bal, legacy) ==
  [t \in TxIds |->
     IF t \in {SeedId(a) : a \in Accounts} THEN SeedRow(bal[0 - t], 0 - t)
     ELSE IF t = LegacyId THEN legacy ELSE NoRow]

\* nothing but the services runs: no calculator is called on its own, no
\* sweep is under way, no reference number has been generated
InitNoAux ==
  /\ calc = NoCalc
  /\ sweep = [p \in Procs |-> NoSweep]
  /\ clock = 0
  /\ reference = [p \in Procs |-> NoRef]
  /\ refRows = << >>

\* no loan has been applied for
InitNoLoans ==
  /\ loans = [l \in Loans |-> NoLoan]
  /\ schedule = [l \in Loans |-> << >>]
  /\ loanLock = [l \in Loans |-> 0]
  /\ schemaFits = FALSE
  /\ loanRead = [p \in Procs |-> NoLoan]

\* no loan has been applied for and every account is in the default currency
InitNoProducts ==
  /\ currency = [a \in Accounts |-> "KZT"]
  /\ depLock = [d \in Procs |-> 0]
  /\ InitNoLoans

Init ==
  /\ balance \in [Accounts -> 0..MaxInitBalance]
  /\ available = balance
  /\ initBalance = balance
  /\ txns = SeedTxns(balance, NoRow)
  /\ InitRequests
  /\ InitNoProducts
  /\ AnyDatabase
  /\ InitNoAux

\* the transactions table may also hold a row left pending by something other
\* than this program (the column default is pending): the case cancelTransaction
\* exists for
LegacyRow == [from |-> NullId, to |-> 1, amount |-> 1, status |-> "pending"]

InitCancel ==
  /\ balance = [a \in Accounts |-> MaxInitBalance]
  /\ available = balance
  /\ initBalance = balance
  /\ txns \in {SeedTxns(balance, NoRow), SeedTxns(balance, LegacyRow)}
  /\ InitRequests
  /\ InitNoProducts
  /\ AnyDatabase
  /\ InitNoAux

\* ------------------------------------------------------------- the ledger
\* (variant: a plain SELECT, which waits for no lock)
RowLockFree_NoForUpdate(a) == TRUE

\* positions of createTransaction between its INSERT and its COMMIT or ROLLBACK
KeyShareLabels == {"ct_debit_sel", "ct_debit_upd", "ct_credit_sel", "ct_credit_upd",
                   "ct_commit"}

\* the key-share lock the foreign-key check of INSERT INTO transactions takes
\* on the referenced account rows, held by the inserting transaction
KeyShared(a) ==
  /\ foreignKeys
  /\ \E q \in Procs : pc[q] \in KeyShareLabels /\ a \in {req[q].from, req[q].to}

\* exclusive row lock taken by SELECT ... FOR UPDATE, held until COMMIT/ROLLBACK;
\* FOR UPDATE also waits for every key-share lock on the row
RowLockFree(a) == rowLock[a] = 0 /\ ~KeyShared(a)

\* (variant: no funds test and no table constraint)
LedgerOutcome_Unchecked(bal, avail, amount, isDebit) ==
  [ok |-> TRUE, err |-> "",
   balance |-> IF isDebit THEN bal - amount ELSE bal + amount,
   available |-> IF isDebit THEN avail - amount ELSE avail + amount]

\* (variant: a debit that forgets available_balance)
LedgerOutcome_BalanceOnly(bal, avail, amount, isDebit) ==
  IF isDebit /\ avail < amount
  THEN [ok |-> FALSE, err |-> "Insufficient funds", balance |-> bal, available |-> avail]
  ELSE [ok |-> TRUE, err |-> "",
        balance |-> IF isDebit THEN bal - amount ELSE bal + amount,
        available |-> IF isDebit THEN avail ELSE avail + amount]

\* the write updateAccountBalance computes from the values it read, under
\* the table constraint CHECK (balance >= 0)
LedgerOutcome(bal, avail, amount, isDebit) ==
  IF isDebit /\ avail < amount
  THEN [ok |-> FALSE, err |-> "Insufficient funds", balance |-> bal, available |-> avail]
  ELSE LET nb == IF isDebit THEN bal - amount ELSE bal + amount
           na == IF isDebit THEN avail - amount ELSE avail + amount
       IN  IF nb < 0
           THEN [ok |-> FALSE, err |-> "check_violation", balance |-> bal, available |-> avail]
           ELSE [ok |-> TRUE, err |-> "", balance |-> nb, available |-> na]

\* ------------------------------------------------------------- JS numbers
\* a JavaScript number as the exact fraction n/d (d > 0); d = 0 is NaN, the
\* result of 0/0
RECURSIVE GCD(_, _)
GCD(a, b) == IF b = 0 THEN a ELSE GCD(b, a % b)

Abs(x) == IF x < 0 THEN 0 - x ELSE x

QNaN == [n |-> 0, d |-> 0]
Q(n, d) ==
  IF d = 0 THEN QNaN
  ELSE LET g == GCD(Abs(n), Abs(d))
       IN  [n |-> (IF d < 0 THEN 0 - n ELSE n) \div g, d |-> Abs(d) \div g]
Qi(i) == [n |-> i, d |-> 1]
IsNaN(a) == a.d = 0

\* the four operations (x \in {a} takes the value of an operand once)
QAdd(a, b) ==
  CHOOSE r \in {IF IsNaN(x) \/ IsNaN(y) THEN QNaN ELSE Q(x.n * y.d + y.n * x.d, x.d * y.d) :
                  x \in {a}, y \in {b}} : TRUE
QSub(a, b) ==
  CHOOSE r \in {IF IsNaN(x) \/ IsNaN(y) THEN QNaN ELSE Q(x.n * y.d - y.n * x.d, x.d * y.d) :
                  x \in {a}, y \in {b}} : TRUE
QMul(a, b) ==
  CHOOSE r \in {IF IsNaN(x) \/ IsNaN(y) THEN QNaN ELSE Q(x.n * y.n, x.d * y.d) :
                  x \in {a}, y \in {b}} : TRUE
\* (x / 0 with x # 0 is an infinity; no call of this model divides so)
QDiv(a, b) ==
  CHOOSE r \in {IF IsNaN(x) \/ IsNaN(y) THEN QNaN ELSE Q(x.n * y.d, x.d * y.n) :
                  x \in {a}, y \in {b}} : TRUE

RECURSIVE QPow(_, _)
QPow(a, k) == IF k = 0 THEN Qi(1) ELSE QMul(a, QPow(a, k - 1))

\* a rounded amount that is NaN
NaN == 0 - 999999999

\* Math.round(x * 100) / 100 of an amount x: the nearest hundredth, a half
\* going up
Round2(a) ==
  CHOOSE r \in {IF IsNaN(x) THEN NaN ELSE (2 * x.n + x.d) \div (2 * x.d) : x \in {a}} : TRUE

\* Math.max(0, x)
MathMax0(c) == IF c = NaN THEN NaN ELSE IF c < 0 THEN 0 ELSE c

\* node-postgres hands a DECIMAL column to the caller as text ("2.00"), and
\* number + text in JavaScript is the concatenation of the two texts, which
\* PostgreSQL then reads as a number: 2 + "1.00" is "21.00"; a number with
\* a fraction gives a text with two decimal points (0.5 + "1.00" is
\* "0.51.00"), which no DECIMAL column accepts
RECURSIVE Digits(_)
Digits(n) == IF n < 10 THEN 1 ELSE 1 + Digits(n \div 10)

RECURSIVE Pow10(_)
Pow10(k) == IF k = 0 THEN 1 ELSE 10 * Pow10(k - 1)

IsWhole(x) == x % 100 = 0
JsPlusText(x, n) == (x \div 100) * Pow10(Digits(n \div 100)) * 100 + n

\* text + number, as `principal + interest` evaluates when principal comes
\* from a row: the decimal digits of a whole number are appended to the text
\* ("10.00" + 1 is "10.001"); any other number brings a second decimal point
\* and the text is no number (NaN)
JsTextPlus(t, a) ==
  CHOOSE r \in {IF IsNaN(x) \/ x.d # 1 \/ x.n < 0 \/ ~IsWhole(x.n) THEN QNaN
                ELSE LET k == x.n \div 100 IN Q(t * Pow10(Digits(k)) + k, Pow10(Digits(k))) :
                  x \in {a}} : TRUE

\* ------------------------------------------------------------ calculators
\* annualRate / 12 / 100, the rate in percent
MonthlyRate(annualRate) == Q(annualRate, 1200)

\* calculateDeposit; fromRow: the arguments are columns of a deposits row
\* (texts) rather than numbers
calculateDeposit(principal, annualRate, termMonths, fromRow) ==
  LET interest == QDiv(QMul(QMul(Qi(principal), Qi(annualRate)), Qi(termMonths)), Qi(1200))
      finalAmount == IF fromRow THEN JsTextPlus(principal, interest)
                     ELSE QAdd(Qi(principal), interest)
      monthlyInterest == QDiv(interest, Qi(termMonths))
  IN  [interest_earned |-> Round2(interest),
       final_amount |-> Round2(finalAmount),
       monthly_interest |-> Round2(monthlyInterest)]

\* (variant: the rate is compounded one month less than the term)
calculateCompoundDeposit_Short(principal, annualRate, termMonths) ==
  LET finalAmount == QMul(Qi(principal),
                          QPow(QAdd(Qi(1), MonthlyRate(annualRate)), termMonths - 1))
      interest == QSub(finalAmount, Qi(principal))
  IN  [interest_earned |-> Round2(interest),
       final_amount |-> Round2(finalAmount),
       monthly_interest_avg |-> Round2(QDiv(interest, Qi(termMonths)))]

\* calculateCompoundDeposit: every operation converts a text argument to a
\* number, so a row's columns give what numbers give
calculateCompoundDeposit(principal, annualRate, termMonths) ==
  LET finalAmount == QMul(Qi(principal),
                          QPow(QAdd(Qi(1), MonthlyRate(annualRate)), termMonths))
      interest == QSub(finalAmount, Qi(principal))
  IN  [interest_earned |-> Round2(interest),
       final_amount |-> Round2(finalAmount),
       monthly_interest_avg |-> Round2(QDiv(interest, Qi(termMonths)))]

\* the annuity payment: principal * (r * (1 + r)^n) / ((1 + r)^n - 1)
MonthlyPayment(principal, annualRate, termMonths) ==
  LET r == MonthlyRate(annualRate)
      g == QPow(QAdd(Qi(1), r), termMonths)
  IN  QDiv(QMul(Qi(principal), QMul(r, g)), QSub(g, Qi(1)))

\* the rows i..termMonths of calculateLoan's schedule, remainingBalance being
\* the balance before row i
RECURSIVE ScheduleRows(_, _, _, _, _)
ScheduleRows(i, remainingBalance, monthlyPayment, r, termMonths) ==
  IF i > termMonths THEN << >>
  ELSE LET interestPayment == QMul(remainingBalance, r)
           principalPayment == QSub(monthlyPayment, interestPayment)
           after == IF i = termMonths THEN Qi(0)
                    ELSE QSub(remainingBalance, principalPayment)
       IN  << [payment_number |-> i,
               principal_payment |-> Round2(principalPayment),
               interest_payment |-> Round2(interestPayment),
               total_payment |-> Round2(monthlyPayment),
               remaining_balance |-> MathMax0(Round2(after))] >>
           \o ScheduleRows(i + 1, after, monthlyPayment, r, termMonths)

calculateLoan(principal, annualRate, termMonths) ==
  LET monthlyPayment == MonthlyPayment(principal, annualRate, termMonths)
      totalPayment == QMul(monthlyPayment, Qi(termMonths))
  IN  [monthly_payment |-> Round2(monthlyPayment),
       total_payment |-> Round2(totalPayment),
       total_interest |-> Round2(QSub(totalPayment, Qi(principal))),
       schedule |-> ScheduleRows(1, Qi(principal), monthlyPayment,
                                 MonthlyRate(annualRate), termMonths)]

\* updateAccountBalance called with an amount taken from a row: the comparison
\* and the subtraction of a debit convert the text to a number, the addition
\* of a credit concatenates
LedgerOutcomeText(bal, avail, amount, isDebit) ==
  IF isDebit THEN LedgerOutcome(bal, avail, amount, TRUE)
  ELSE IF IsWhole(bal) /\ IsWhole(avail)
       THEN [ok |-> TRUE, err |-> "",
             balance |-> JsPlusText(bal, amount), available |-> JsPlusText(avail, amount)]
       ELSE [ok |-> FALSE, err |-> "invalid input syntax", balance |-> bal,
             available |-> avail]

SelectLabels == {"ct_debit_sel", "ct_credit_sel", "od_debit_sel",
                 "al_credit_sel", "mp_debit_sel", "er_debit_sel", "cd_credit_sel"}
UpdateLabels == {"ct_debit_upd", "ct_credit_upd", "od_debit_upd",
                 "al_credit_upd", "mp_debit_upd", "er_debit_upd", "cd_credit_upd"}

IsDebitLeg(p) == pc[p] \in {"ct_debit_sel", "ct_debit_upd", "od_debit_sel", "od_debit_upd",
                            "mp_debit_sel", "mp_debit_upd", "er_debit_sel", "er_debit_upd"}
LegAccount(p) ==
  IF pc[p] \in {"ct_credit_sel", "ct_credit_upd", "al_credit_sel", "al_credit_upd"}
  THEN req[p].to
  ELSE IF pc[p] \in {"cd_credit_sel", "cd_credit_upd"}
       THEN deposits[req[p].target].account
       ELSE req[p].from
LegName(p) == IF IsDebitLeg(p) THEN "debit" ELSE "credit"

\* closeDeposit's returnAmount for the row d it read. Early: the column
\* principal_amount of a fixed deposit, the column current_balance of any
\* other (texts). At term: final_amount of the compound calculator for a
\* fixed deposit, of the simple calculator for any other, called with the
\* row's columns
ReturnAmount(d, isEarlyWithdrawal) ==
  IF isEarlyWithdrawal
  THEN IF d.type = "fixed" THEN d.principal ELSE d.current
  ELSE IF d.type = "fixed"
       THEN calculateCompoundDeposit(d.principal, d.rate, d.term).final_amount
       ELSE calculateDeposit(d.principal, d.rate, d.term, TRUE).final_amount

\* the amount argument of the ledger call, and whether it is a row's column
LegAmount(p) ==
  CASE pc[p] \in {"al_credit_sel", "al_credit_upd"} -> loanRead[p].principal
    [] pc[p] \in {"er_debit_sel", "er_debit_upd"} -> loanRead[p].remaining
    [] pc[p] \in {"cd_credit_sel", "cd_credit_upd"} -> ReturnAmount(deposits[req[p].target], req[p].early)
    [] OTHER -> req[p].amount
AmountIsText(p) ==
  CASE pc[p] \in {"al_credit_sel", "al_credit_upd", "er_debit_sel", "er_debit_upd"} -> TRUE
    [] pc[p] \in {"cd_credit_sel", "cd_credit_upd"} -> req[p].early
    [] OTHER -> FALSE

UpdateLabelOf(l) ==
  CASE l = "ct_debit_sel" -> "ct_debit_upd"
    [] l = "ct_credit_sel" -> "ct_credit_upd"
    [] l = "od_debit_sel" -> "od_debit_upd"
    [] l = "al_credit_sel" -> "al_credit_upd"
    [] l = "mp_debit_sel" -> "mp_debit_upd"
    [] l = "er_debit_sel" -> "er_debit_upd"
    [] l = "cd_credit_sel" -> "cd_credit_upd"

\* (variant: the credit leg is skipped after a debit)
AfterLedger_SkipCredit(p) ==
  CASE pc[p] = "ct_debit_upd" -> "ct_commit"
    [] pc[p] = "ct_credit_upd" -> "ct_commit"
    [] pc[p] = "od_debit_upd" -> "od_insert"
    [] pc[p] = "al_credit_upd" -> "al_write"
    [] pc[p] = "mp_debit_upd" -> "mp_write"
    [] pc[p] = "er_debit_upd" -> "er_write"
    [] pc[p] = "cd_credit_upd" -> "cd_write"

AfterLedger(p) ==
  CASE pc[p] = "ct_debit_upd" -> (IF req[p].to # NullId THEN "ct_credit_sel" ELSE "ct_commit")
    [] pc[p] = "ct_credit_upd" -> "ct_commit"
    [] pc[p] = "od_debit_upd" -> "od_insert"
    [] pc[p] = "al_credit_upd" -> "al_write"
    [] pc[p] = "mp_debit_upd" -> "mp_write"
    [] pc[p] = "er_debit_upd" -> "er_write"
    [] pc[p] = "cd_credit_upd" -> "cd_write"

\* what a call that completes resolves to for its caller: a table row, a
\* number, or undefined (a Promise<void>, or a bare `return;`)
ReturnValue(op) ==
  CASE op \in {"createTransaction", "transferToAccount", "openDeposit",
               "approveLoan", "renewDeposit"} -> "row"
    [] op = "closeDeposit" -> "number"
    [] OTHER -> "undefined"

\* catch blocks: the inner ROLLBACK releases the row lock, the outer ROLLBACK
\* discards the rows written in the request's open transaction; writes that
\* were already committed stay
ReleaseLocks(p) == [a \in Accounts |-> IF rowLock[a] = p THEN 0 ELSE rowLock[a]]

Throw(p, msg) ==
  /\ pc' = [pc EXCEPT ![p] = "done"]
  /\ result' = [result EXCEPT ![p] = [status |-> "error", err |-> msg, at |-> pc[p],
                                      value |-> "none"]]
  /\ txLocal' = [txLocal EXCEPT ![p] = "none"]
  /\ rowLock' = ReleaseLocks(p)

\* the caller's COMMIT or ROLLBACK also releases the loan and deposit rows it
\* locked; the ledger itself writes none of the product tables
ReleaseLoanLocks(p) == [l \in Loans |-> IF loanLock[l] = p THEN 0 ELSE loanLock[l]]
ReleaseDepLocks(p) == [d \in Procs |-> IF depLock[d] = p THEN 0 ELSE depLock[d]]

ProdOnExit(p) ==
  /\ UNCHANGED <<currency, loans, schedule, schemaFits, foreignKeys, loanRead>>
  /\ IF pc'[p] = "done"
     THEN /\ loanLock' = ReleaseLoanLocks(p)
          /\ depLock' = ReleaseDepLocks(p)
     ELSE UNCHANGED <<loanLock, depLock>>

\* updateAccountBalance, first half: BEGIN; SELECT ... FOR UPDATE
UbSelect(p) ==
  /\ pc[p] \in SelectLabels
  /\ LET a == LegAccount(p) IN
       IF a \notin Accounts
       THEN /\ Throw(p, "Account not found")
            /\ UNCHANGED <<balance, available, status, txns, deposits, req, rd>>
            /\ UNCHANGED histVars
       ELSE /\ RowLockFree(a)
            /\ rowLock' = [rowLock EXCEPT ![a] = p]
            /\ rd' = [rd EXCEPT ![p] = [bal |-> balance[a], avail |-> available[a], seen |-> ""]]
            /\ pc' = [pc EXCEPT ![p] = UpdateLabelOf(pc[p])]
            /\ UNCHANGED <<balance, available, status, txns, deposits, req, txLocal, result>>
            /\ UNCHANGED histVars
  /\ ProdOnExit(p)
  /\ UNCHANGED auxVars

\* updateAccountBalance, second half: funds check, UPDATE accounts, COMMIT
UbUpdate(p) ==
  /\ pc[p] \in UpdateLabels
  /\ LET a == LegAccount(p)
         out == IF AmountIsText(p)
                THEN LedgerOutcomeText(rd[p].bal, rd[p].avail, LegAmount(p), IsDebitLeg(p))
                ELSE LedgerOutcome(rd[p].bal, rd[p].avail, LegAmount(p), IsDebitLeg(p))
     IN  IF out.ok
         THEN /\ balance' = [balance EXCEPT ![a] = out.balance]
              /\ available' = [available EXCEPT ![a] = out.available]
              /\ rowLock' = ReleaseLocks(p)
              /\ legs' = [legs EXCEPT ![p] = @ \cup {LegName(p)}]
              /\ delta' = [delta EXCEPT ![p][LegName(p)] = out.balance - balance[a]]
              /\ pc' = [pc EXCEPT ![p] = AfterLedger(p)]
              /\ UNCHANGED <<status, txns, deposits, req, rd, txLocal, result,
                             obs, faults, initBalance>>
         ELSE /\ Throw(p, out.err)
              /\ UNCHANGED <<balance, available, status, txns, deposits, req, rd>>
              /\ UNCHANGED histVars
  /\ ProdOnExit(p)
  /\ UNCHANGED auxVars

\* ------------------------------------------------------- createTransaction
\* request slots are interchangeable: slot p+1 is taken only after slot p
SlotFree(p) == pc[p] = "idle" /\ \A q \in Procs : q < p => pc[q] # "idle"

StartCreateTransaction(p) ==
  /\ SlotFree(p)
  /\ \E f \in AccountIds, t \in AccountIds, amt \in Amounts :
       req' = [req EXCEPT ![p] = [op |-> "createTransaction", from |-> f, to |-> t,
                                  amount |-> amt, user |-> 0, target |-> 0, early |-> FALSE]]
  /\ pc' = [pc EXCEPT ![p] = "ct_checkFrom"]
  /\ UNCHANGED <<rd, txLocal, result>>
  /\ UNCHANGED dbVars
  /\ UNCHANGED histVars
  /\ UNCHANGED prodVars
  /\ UNCHANGED auxVars

\* (variant: the status test is missing)
AccountUsable_ExistsOnly(a) == a \in Accounts

\* getAccountById + the two tests made on its result
AccountUsable(a) == a \in Accounts /\ status[a] = "active"
SeenStatus(a) == IF a \in Accounts THEN status[a] ELSE "missing"

CtCheckFrom(p) ==
  /\ pc[p] = "ct_checkFrom"
  /\ LET f == req[p].from IN
       IF f = NullId
       THEN /\ pc' = [pc EXCEPT ![p] = "ct_checkTo"]
            /\ UNCHANGED <<req, rd, txLocal, result, rowLock, obs>>
       ELSE /\ obs' = [obs EXCEPT ![p].from = SeenStatus(f)]
            /\ IF AccountUsable(f)
               THEN /\ pc' = [pc EXCEPT ![p] = "ct_checkTo"]
                    /\ UNCHANGED <<req, rd, txLocal, result, rowLock>>
               ELSE /\ Throw(p, IF f \in Accounts THEN "Source account is not active"
                                                  ELSE "Source account not found")
                    /\ UNCHANGED <<req, rd>>
  /\ UNCHANGED <<balance, available, status, txns, deposits>>
  /\ UNCHANGED <<legs, delta, faults, initBalance>>
  /\ UNCHANGED prodVars
  /\ UNCHANGED auxVars

CtCheckTo(p) ==
  /\ pc[p] = "ct_checkTo"
  /\ LET t == req[p].to IN
       IF t = NullId
       THEN /\ pc' = [pc EXCEPT ![p] = "ct_insert"]
            /\ UNCHANGED <<req, rd, txLocal, result, rowLock, obs>>
       ELSE /\ obs' = [obs EXCEPT ![p].to = SeenStatus(t)]
            /\ IF AccountUsable(t)
               THEN /\ pc' = [pc EXCEPT ![p] = "ct_insert"]
                    /\ UNCHANGED <<req, rd, txLocal, result, rowLock>>
               ELSE /\ Throw(p, IF t \in Accounts THEN "Destination account is not active"
                                                  ELSE "Destination account not found")
                    /\ UNCHANGED <<req, rd>>
  /\ UNCHANGED <<balance, available, status, txns, deposits>>
  /\ UNCHANGED <<legs, delta, faults, initBalance>>
  /\ UNCHANGED prodVars
  /\ UNCHANGED auxVars

\* table constraints of transactions: CHECK (amount > 0) and check_accounts
TransactionRowAccepted(r) ==
  /\ r.amount > 0
  /\ (r.from # NullId \/ r.to # NullId)

\* (variant: the INSERT runs on a pooled connection and commits at once)
TxnsAfterInsert_Autocommit(p, row) == [txns EXCEPT ![TxId(p)] = row]

\* committed rows after the INSERT: none of them changes, the new row lives
\* in the request's open transaction until COMMIT
TxnsAfterInsert(p, row) == txns

\* (variant: the credit is made first and the debit left out)
FirstLeg_CreditFirst(p) == IF req[p].to # NullId THEN "ct_credit_sel" ELSE "ct_debit_sel"

\* the ledger call that follows the INSERT: the debit when there is a source
\* account, otherwise the credit
FirstLeg(p) == IF req[p].from # NullId THEN "ct_debit_sel" ELSE "ct_credit_sel"

\* the foreign-key check of the INSERT waits while another transaction
\* holds FOR UPDATE on an account row it references
ReferencedRowsFree(p) ==
  foreignKeys => \A a \in {req[p].from, req[p].to} \cap Accounts : rowLock[a] = 0

CtInsert(p) ==
  /\ pc[p] = "ct_insert"
  /\ LET row == [from |-> req[p].from, to |-> req[p].to, amount |-> req[p].amount,
                 status |-> "pending"]
     IN  IF TransactionRowAccepted(row)
         THEN /\ ReferencedRowsFree(p)
              /\ txLocal' = [txLocal EXCEPT ![p] = "pending"]
              /\ txns' = TxnsAfterInsert(p, row)
              /\ pc' = [pc EXCEPT ![p] = FirstLeg(p)]
              /\ UNCHANGED <<req, rd, result, rowLock>>
         ELSE /\ Throw(p, "check_violation")
              /\ UNCHANGED <<req, rd, txns>>
  /\ UNCHANGED <<balance, available, status, deposits>>
  /\ UNCHANGED histVars
  /\ UNCHANGED prodVars
  /\ UNCHANGED auxVars

\* UPDATE transactions SET status = completed; COMMIT
CompletedStatus == "completed"

CtCommit(p) ==
  /\ pc[p] = "ct_commit"
  /\ txns' = [txns EXCEPT ![TxId(p)] =
                [from |-> req[p].from, to |-> req[p].to, amount |-> req[p].amount,
                 status |-> CompletedStatus]]
  /\ txLocal' = [txLocal EXCEPT ![p] = "none"]
  /\ pc' = [pc EXCEPT ![p] = "ct_reread"]
  /\ UNCHANGED <<balance, available, status, rowLock, deposits, req, rd, result>>
  /\ UNCHANGED histVars
  /\ UNCHANGED prodVars
  /\ UNCHANGED auxVars

\* the SELECT after COMMIT whose row is returned
CtReread(p) ==
  /\ pc[p] = "ct_reread"
  /\ pc' = [pc EXCEPT ![p] = "done"]
  /\ result' = [result EXCEPT ![p] = [status |-> "ok", err |-> "", at |-> "",
                                      value |-> ReturnValue(req[p].op)]]
  /\ UNCHANGED <<req, rd, txLocal>>
  /\ UNCHANGED dbVars
  /\ UNCHANGED histVars
  /\ UNCHANGED prodVars
  /\ UNCHANGED auxVars


\* -------------------------------------------- transferToAccount, transferToPhone
AccountNumber(a) == a                    \* accounts.account_number (unique)
PhoneUser(ph) == ph                      \* the user registered under a phone number
UnknownPhone == Cardinality(Users) + 1   \* a phone number no user has

StartTransferToAccount(p) ==
  /\ SlotFree(p)
  /\ \E f \in Accounts \cup {UnknownId}, n \in Accounts \cup {UnknownId}, amt \in Amounts :
       req' = [req EXCEPT ![p] = [op |-> "transferToAccount", from |-> f, to |-> NullId,
                                  amount |-> amt, user |-> 0, target |-> n, early |-> FALSE]]
  /\ pc' = [pc EXCEPT ![p] = "ta_dest"]
  /\ UNCHANGED <<rd, txLocal, result>>
  /\ UNCHANGED dbVars
  /\ UNCHANGED histVars
  /\ UNCHANGED prodVars
  /\ UNCHANGED auxVars

\* SELECT id, currency, status FROM accounts WHERE account_number = $1
TaDest(p) ==
  /\ pc[p] = "ta_dest"
  /\ LET n == req[p].target IN
       IF \A a \in Accounts : AccountNumber(a) # n
       THEN /\ Throw(p, "Destination account not found")
            /\ UNCHANGED req
       ELSE LET a == CHOOSE x \in Accounts : AccountNumber(x) = n IN
            IF status[a] # "active"
            THEN /\ Throw(p, "Destination account is not active")
                 /\ UNCHANGED req
            ELSE /\ req' = [req EXCEPT ![p].to = a]
                 /\ pc' = [pc EXCEPT ![p] = "ta_src"]
                 /\ UNCHANGED <<txLocal, result, rowLock>>
  /\ UNCHANGED <<balance, available, status, txns, deposits, rd>>
  /\ UNCHANGED histVars
  /\ UNCHANGED prodVars
  /\ UNCHANGED auxVars

SameCurrency(f, t) == currency[f] = currency[t]

\* getAccountById(fromAccountId), the currency test, then createTransaction
TaSrc(p) ==
  /\ pc[p] = "ta_src"
  /\ LET f == req[p].from IN
       IF f \notin Accounts
       THEN Throw(p, "Source account not found")
       ELSE IF ~SameCurrency(f, req[p].to)
            THEN Throw(p, "Currency mismatch")
            ELSE /\ pc' = [pc EXCEPT ![p] = "ct_checkFrom"]
                 /\ UNCHANGED <<txLocal, result, rowLock>>
  /\ UNCHANGED <<balance, available, status, txns, deposits, req, rd>>
  /\ UNCHANGED histVars
  /\ UNCHANGED prodVars
  /\ UNCHANGED auxVars

StartTransferToPhone(p) ==
  /\ SlotFree(p)
  /\ \E f \in Accounts \cup {UnknownId}, ph \in Users \cup {UnknownPhone}, amt \in Amounts :
       req' = [req EXCEPT ![p] = [op |-> "transferToPhone", from |-> f, to |-> NullId,
                                  amount |-> amt, user |-> 0, target |-> ph, early |-> FALSE]]
  /\ pc' = [pc EXCEPT ![p] = "tp_user"]
  /\ UNCHANGED <<rd, txLocal, result>>
  /\ UNCHANGED dbVars
  /\ UNCHANGED histVars
  /\ UNCHANGED prodVars
  /\ UNCHANGED auxVars

\* SELECT id FROM users WHERE phone = $1
TpUser(p) ==
  /\ pc[p] = "tp_user"
  /\ IF req[p].target \notin Users
     THEN /\ Throw(p, "Recipient not found")
          /\ UNCHANGED req
     ELSE /\ req' = [req EXCEPT ![p].user = PhoneUser(req[p].target)]
          /\ pc' = [pc EXCEPT ![p] = "tp_src"]
          /\ UNCHANGED <<txLocal, result, rowLock>>
  /\ UNCHANGED <<balance, available, status, txns, deposits, rd>>
  /\ UNCHANGED histVars
  /\ UNCHANGED prodVars
  /\ UNCHANGED auxVars

\* getAccountById(fromAccountId)
TpSrc(p) ==
  /\ pc[p] = "tp_src"
  /\ IF req[p].from \notin Accounts
     THEN Throw(p, "Source account not found")
     ELSE /\ pc' = [pc EXCEPT ![p] = "tp_dest"]
          /\ UNCHANGED <<txLocal, result, rowLock>>
  /\ UNCHANGED <<balance, available, status, txns, deposits, req, rd>>
  /\ UNCHANGED histVars
  /\ UNCHANGED prodVars
  /\ UNCHANGED auxVars

\* SELECT id FROM accounts WHERE user_id = $1 AND currency = $2 AND status =
\* 'active' LIMIT 1, then createTransaction
RecipientAccounts(u, cur) ==
  {a \in Accounts : Owner(a) = u /\ currency[a] = cur /\ status[a] = "active"}

TpDest(p) ==
  /\ pc[p] = "tp_dest"
  /\ LET found == RecipientAccounts(req[p].user, currency[req[p].from]) IN
       IF found = {}
       THEN /\ Throw(p, "Recipient does not have an active account")
            /\ UNCHANGED req
       ELSE /\ \E a \in found : req' = [req EXCEPT ![p].to = a]
            /\ pc' = [pc EXCEPT ![p] = "ct_checkFrom"]
            /\ UNCHANGED <<txLocal, result, rowLock>>
  /\ UNCHANGED <<balance, available, status, txns, deposits, rd>>
  /\ UNCHANGED histVars
  /\ UNCHANGED prodVars
  /\ UNCHANGED auxVars

\* -------------------------------------------------------------- openDeposit
StartOpenDeposit(p) ==
  /\ SlotFree(p)
  /\ \E u \in Users, a \in Accounts \cup {UnknownId}, amt \in Amounts :
       req' = [req EXCEPT ![p] = [op |-> "openDeposit", from |-> a, to |-> NullId,
                                  amount |-> amt, user |-> u, target |-> 0, early |-> FALSE]]
  /\ pc' = [pc EXCEPT ![p] = "od_owner"]
  /\ UNCHANGED <<rd, txLocal, result>>
  /\ UNCHANGED dbVars
  /\ UNCHANGED histVars
  /\ UNCHANGED prodVars
  /\ UNCHANGED auxVars

isAccountOwner(a, u) == a \in Accounts /\ Owner(a) = u

OdOwner(p) ==
  /\ pc[p] = "od_owner"
  /\ IF isAccountOwner(req[p].from, req[p].user)
     THEN /\ pc' = [pc EXCEPT ![p] = "od_debit_sel"]
          /\ UNCHANGED <<txLocal, result, rowLock>>
     ELSE Throw(p, "Account does not belong to user")
  /\ UNCHANGED <<balance, available, status, txns, deposits, req, rd>>
  /\ UNCHANGED histVars
  /\ UNCHANGED prodVars
  /\ UNCHANGED auxVars

\* INSERT INTO deposits under CHECK (principal_amount > 0); COMMIT
\* the row openDeposit inserts: the amounts and the product are the
\* request's (requests here ask for a fixed deposit at rate 0 for one month,
\* no automatic renewal), status active, maturity_date termMonths ahead
NewDeposit(accountId, principal) ==
  [account |-> accountId, principal |-> principal, current |-> principal,
   status |-> "active", type |-> "fixed", rate |-> 0, term |-> 1, auto |-> FALSE,
   due |-> FALSE]

OdInsert(p) ==
  /\ pc[p] = "od_insert"
  /\ IF req[p].amount > 0
     THEN /\ deposits' = [deposits EXCEPT ![p] = NewDeposit(req[p].from, req[p].amount)]
          /\ pc' = [pc EXCEPT ![p] = "done"]
          /\ result' = [result EXCEPT ![p] = [status |-> "ok", err |-> "", at |-> "",
                                      value |-> ReturnValue(req[p].op)]]
          /\ UNCHANGED <<txLocal, rowLock>>
     ELSE /\ Throw(p, "check_violation")
          /\ UNCHANGED deposits
  /\ UNCHANGED <<balance, available, status, txns, req, rd>>
  /\ UNCHANGED histVars
  /\ UNCHANGED prodVars
  /\ UNCHANGED auxVars

\* -------------------------------------------------------- cancelTransaction
StartCancelTransaction(p) ==
  /\ SlotFree(p)
  /\ \E t \in TxIds :
       req' = [req EXCEPT ![p] = [op |-> "cancelTransaction", from |-> NullId,
                                  to |-> NullId, amount |-> 0, user |-> 0, target |-> t, early |-> FALSE]]
  /\ pc' = [pc EXCEPT ![p] = "cx_select"]
  /\ UNCHANGED <<rd, txLocal, result>>
  /\ UNCHANGED dbVars
  /\ UNCHANGED histVars
  /\ UNCHANGED prodVars
  /\ UNCHANGED auxVars

\* (variant: the status test is missing)
Cancellable_Always(st) == TRUE

Cancellable(st) == st = "pending"

\* SELECT * FROM transactions WHERE id = $1, and the status test
CxSelect(p) ==
  /\ pc[p] = "cx_select"
  /\ LET row == txns[req[p].target] IN
       IF row.status = "absent"
       THEN /\ Throw(p, "Transaction not found")
            /\ UNCHANGED rd
       ELSE /\ rd' = [rd EXCEPT ![p].seen = row.status]
            /\ IF Cancellable(row.status)
               THEN /\ pc' = [pc EXCEPT ![p] = "cx_update"]
                    /\ UNCHANGED <<txLocal, result, rowLock>>
               ELSE Throw(p, "Only pending transactions can be cancelled")
  /\ UNCHANGED <<balance, available, status, txns, deposits, req>>
  /\ UNCHANGED histVars
  /\ UNCHANGED prodVars
  /\ UNCHANGED auxVars

\* UPDATE transactions SET status = cancelled WHERE id = $2; COMMIT
CxUpdate(p) ==
  /\ pc[p] = "cx_update"
  /\ txns' = [txns EXCEPT ![req[p].target].status = "cancelled"]
  /\ pc' = [pc EXCEPT ![p] = "done"]
  /\ result' = [result EXCEPT ![p] = [status |-> "ok", err |-> "", at |-> "",
                                      value |-> ReturnValue(req[p].op)]]
  /\ UNCHANGED <<balance, available, status, rowLock, deposits, req, rd, txLocal>>
  /\ UNCHANGED histVars
  /\ UNCHANGED prodVars
  /\ UNCHANGED auxVars

\* ------------------------------------------ account status transitions
StartCloseAccount(p) ==
  /\ SlotFree(p)
  /\ \E a \in Accounts \cup {UnknownId} :
       req' = [req EXCEPT ![p] = [op |-> "closeAccount", from |-> a, to |-> NullId,
                                  amount |-> 0, user |-> 0, target |-> 0, early |-> FALSE]]
  /\ pc' = [pc EXCEPT ![p] = "ca_select"]
  /\ UNCHANGED <<rd, txLocal, result>>
  /\ UNCHANGED dbVars
  /\ UNCHANGED histVars
  /\ UNCHANGED prodVars
  /\ UNCHANGED auxVars

\* SELECT balance FROM accounts WHERE id = $1 (no row lock), and the zero test
CaSelect(p) ==
  /\ pc[p] = "ca_select"
  /\ LET a == req[p].from IN
       IF a \notin Accounts
       THEN /\ Throw(p, "Account not found")
            /\ UNCHANGED rd
       ELSE /\ rd' = [rd EXCEPT ![p].bal = balance[a]]
            /\ IF balance[a] # 0
               THEN Throw(p, "Cannot close account with non-zero balance")
               ELSE /\ pc' = [pc EXCEPT ![p] = "ca_update"]
                    /\ UNCHANGED <<txLocal, result, rowLock>>
  /\ UNCHANGED <<balance, available, status, txns, deposits, req>>
  /\ UNCHANGED histVars
  /\ UNCHANGED prodVars
  /\ UNCHANGED auxVars

\* UPDATE accounts SET status = closed; COMMIT (the UPDATE waits for the row lock)
CaUpdate(p) ==
  /\ pc[p] = "ca_update"
  /\ RowLockFree(req[p].from)
  /\ status' = [status EXCEPT ![req[p].from] = "closed"]
  /\ pc' = [pc EXCEPT ![p] = "done"]
  /\ result' = [result EXCEPT ![p] = [status |-> "ok", err |-> "", at |-> "",
                                      value |-> ReturnValue(req[p].op)]]
  /\ UNCHANGED <<balance, available, rowLock, txns, deposits, req, rd, txLocal>>
  /\ UNCHANGED histVars
  /\ UNCHANGED prodVars
  /\ UNCHANGED auxVars

\* one autocommitted UPDATE accounts SET status = ... WHERE id = $2
blockAccount(a) ==
  /\ RowLockFree(a)
  /\ status[a] # "blocked"
  /\ status' = [status EXCEPT ![a] = "blocked"]
  /\ UNCHANGED <<balance, available, rowLock, txns, deposits>>
  /\ UNCHANGED procVars
  /\ UNCHANGED histVars
  /\ UNCHANGED prodVars
  /\ UNCHANGED auxVars

unblockAccount(a) ==
  /\ RowLockFree(a)
  /\ status[a] # "active"
  /\ status' = [status EXCEPT ![a] = "active"]
  /\ UNCHANGED <<balance, available, rowLock, txns, deposits>>
  /\ UNCHANGED procVars
  /\ UNCHANGED histVars
  /\ UNCHANGED prodVars
  /\ UNCHANGED auxVars

\* -------------------------------------------------------------------- loans
\* the caller's catch block: ROLLBACK discards its uncommitted writes and
\* releases the rows it locked
ThrowProd(p, msg) ==
  /\ Throw(p, msg)
  /\ loanLock' = ReleaseLoanLocks(p)
  /\ depLock' = ReleaseDepLocks(p)
  /\ UNCHANGED <<currency, loans, schedule, schemaFits, foreignKeys>>

Step(p, label) ==
  /\ pc' = [pc EXCEPT ![p] = label]
  /\ UNCHANGED <<txLocal, result, rowLock>>

Return(p) ==
  /\ pc' = [pc EXCEPT ![p] = "done"]
  /\ result' = [result EXCEPT ![p] = [status |-> "ok", err |-> "", at |-> "",
                                      value |-> ReturnValue(req[p].op)]]
  /\ UNCHANGED <<txLocal, rowLock>>

\* table constraint of loans: CHECK (status IN (...))
LoanStatusAccepted(st) ==
  \/ st \in {"pending", "active", "paid_off", "defaulted"}
  \/ (schemaFits /\ st = "rejected")

\* BEGIN; SELECT * FROM loans WHERE id = $1 FOR UPDATE, and the status test
SelectLoan(p, wanted, refusal, next) ==
  LET l == req[p].target IN
    IF l \notin Loans
    THEN /\ ThrowProd(p, "Loan not found")
         /\ UNCHANGED loanRead
    ELSE /\ loanLock[l] = 0
         /\ loanRead' = [loanRead EXCEPT ![p] = loans[l]]
         /\ IF loans[l].status # wanted
            THEN ThrowProd(p, refusal)
            ELSE /\ loanLock' = [loanLock EXCEPT ![l] = p]
                 /\ Step(p, next)
                 /\ UNCHANGED <<currency, loans, schedule, depLock, schemaFits, foreignKeys>>

StartApproveLoan(p) ==
  /\ SlotFree(p)
  /\ \E l \in Loans \cup {UnknownLoan}, a \in Accounts \cup {UnknownId} :
       req' = [req EXCEPT ![p] = [op |-> "approveLoan", from |-> NullId, to |-> a,
                                  amount |-> 0, user |-> 0, target |-> l, early |-> FALSE]]
  /\ pc' = [pc EXCEPT ![p] = "al_select"]
  /\ UNCHANGED <<rd, txLocal, result>>
  /\ UNCHANGED dbVars
  /\ UNCHANGED histVars
  /\ UNCHANGED prodVars
  /\ UNCHANGED auxVars

AlSelect(p) ==
  /\ pc[p] = "al_select"
  /\ SelectLoan(p, "pending", "Loan is not pending approval", "al_account")
  /\ UNCHANGED <<balance, available, status, txns, deposits, req, rd>>
  /\ UNCHANGED histVars
  /\ UNCHANGED auxVars

\* getAccountById(accountId) and the ownership test
AlAccount(p) ==
  /\ pc[p] = "al_account"
  /\ LET a == req[p].to IN
       IF a \notin Accounts
       THEN ThrowProd(p, "Account not found")
       ELSE IF Owner(a) # loanRead[p].user
            THEN ThrowProd(p, "Account does not belong to loan applicant")
            ELSE /\ Step(p, "al_credit_sel")
                 /\ UNCHANGED <<currency, loans, schedule, loanLock, depLock, schemaFits, foreignKeys>>
  /\ UNCHANGED <<balance, available, status, txns, deposits, req, rd, loanRead>>
  /\ UNCHANGED histVars
  /\ UNCHANGED auxVars

\* the rows approveLoan inserts: one per month of the term, all pending
NewSchedule(term) == [i \in 1..term |-> "pending"]

\* UPDATE loans SET status = active, account_id, ...; INSERT INTO
\* loan_payments for every row of the schedule; COMMIT
AlWrite(p) ==
  /\ pc[p] = "al_write"
  /\ LET l == req[p].target IN
       IF ~(LoanStatusAccepted("active") /\ schemaFits)
       THEN ThrowProd(p, "statement failed")
       ELSE /\ loans' = [loans EXCEPT ![l].status = "active", ![l].account = req[p].to,
                                      ![l].nextDue = 1]
            /\ schedule' = [schedule EXCEPT ![l] = @ \o NewSchedule(loanRead[p].term)]
            /\ loanLock' = ReleaseLoanLocks(p)
            /\ Return(p)
            /\ UNCHANGED <<currency, depLock, schemaFits, foreignKeys>>
  /\ UNCHANGED <<balance, available, status, txns, deposits, req, rd, loanRead>>
  /\ UNCHANGED histVars
  /\ UNCHANGED auxVars

StartRejectLoan(p) ==
  /\ SlotFree(p)
  /\ \E l \in Loans \cup {UnknownLoan} :
       req' = [req EXCEPT ![p] = [op |-> "rejectLoan", from |-> NullId, to |-> NullId,
                                  amount |-> 0, user |-> 0, target |-> l, early |-> FALSE]]
  /\ pc' = [pc EXCEPT ![p] = "rl_update"]
  /\ UNCHANGED <<rd, txLocal, result>>
  /\ UNCHANGED dbVars
  /\ UNCHANGED histVars
  /\ UNCHANGED prodVars
  /\ UNCHANGED auxVars

\* UPDATE loans SET status = 'rejected' WHERE id = $2 (autocommit; the UPDATE
\* waits for the row lock), and the rowCount test
RlUpdate(p) ==
  /\ pc[p] = "rl_update"
  /\ LET l == req[p].target IN
       IF l \notin Loans
       THEN /\ ThrowProd(p, "Loan not found")
            /\ UNCHANGED loanRead
       ELSE /\ loanLock[l] = 0
            /\ loanRead' = [loanRead EXCEPT ![p] = loans[l]]
            /\ IF LoanStatusAccepted("rejected")
               THEN /\ loans' = [loans EXCEPT ![l].status = "rejected"]
                    /\ Return(p)
                    /\ UNCHANGED <<currency, schedule, loanLock, depLock, schemaFits, foreignKeys>>
               ELSE ThrowProd(p, "check_violation")
  /\ UNCHANGED <<balance, available, status, txns, deposits, req, rd>>
  /\ UNCHANGED histVars
  /\ UNCHANGED auxVars

PaymentAmounts == (0 - 1)..MaxAmount     \* req.body.amount reaches the service unvalidated

StartMakeLoanPayment(p) ==
  /\ SlotFree(p)
  /\ \E l \in Loans \cup {UnknownLoan}, a \in Accounts, amt \in PaymentAmounts :
       req' = [req EXCEPT ![p] = [op |-> "makeLoanPayment", from |-> a, to |-> NullId,
                                  amount |-> amt, user |-> 0, target |-> l, early |-> FALSE]]
  /\ pc' = [pc EXCEPT ![p] = "mp_select"]
  /\ UNCHANGED <<rd, txLocal, result>>
  /\ UNCHANGED dbVars
  /\ UNCHANGED histVars
  /\ UNCHANGED prodVars
  /\ UNCHANGED auxVars

MpSelect(p) ==
  /\ pc[p] = "mp_select"
  /\ SelectLoan(p, "active", "Loan is not active", "mp_debit_sel")
  /\ UNCHANGED <<balance, available, status, txns, deposits, req, rd>>
  /\ UNCHANGED histVars
  /\ UNCHANGED auxVars

\* (variant: ORDER BY payment_number DESC)
FirstPending_Last(sch) ==
  IF \A i \in DOMAIN sch : sch[i] # "pending" THEN 0
  ELSE CHOOSE i \in DOMAIN sch :
         sch[i] = "pending" /\ \A j \in DOMAIN sch : sch[j] = "pending" => j <= i

\* SELECT ... WHERE status = 'pending' ORDER BY payment_number ASC LIMIT 1
\* (0: no row)
FirstPending(sch) ==
  IF \A i \in DOMAIN sch : sch[i] # "pending" THEN 0
  ELSE CHOOSE i \in DOMAIN sch :
         sch[i] = "pending" /\ \A j \in DOMAIN sch : sch[j] = "pending" => i <= j

MarkPaid(sch) ==
  IF FirstPending(sch) = 0 THEN sch ELSE [sch EXCEPT ![FirstPending(sch)] = "paid"]

\* Math.max(0, loan.remaining_balance - amount)
NewRemaining(remaining, amount) ==
  IF remaining - amount < 0 THEN 0 ELSE remaining - amount

\* the loan row after the payment: remaining_balance, then either status
\* paid_off or the due date of the next pending row, if there is one
LoanAfterPayment(row, amount, sch) ==
  LET nb == NewRemaining(row.remaining, amount) IN
    IF nb = 0
    THEN [row EXCEPT !.remaining = 0, !.status = "paid_off"]
    ELSE [row EXCEPT !.remaining = nb,
                     !.nextDue = IF FirstPending(sch) = 0 THEN @ ELSE FirstPending(sch)]

\* the statements of makeLoanPayment after the debit, and COMMIT
MpWrite(p) ==
  /\ pc[p] = "mp_write"
  /\ LET l == req[p].target IN
       IF ~schemaFits
       THEN ThrowProd(p, "statement failed")
       ELSE /\ schedule' = [schedule EXCEPT ![l] = MarkPaid(@)]
            /\ loans' = [loans EXCEPT ![l] =
                           LoanAfterPayment(@, req[p].amount, MarkPaid(schedule[l]))]
            /\ loanLock' = ReleaseLoanLocks(p)
            /\ Return(p)
            /\ UNCHANGED <<currency, depLock, schemaFits, foreignKeys>>
  /\ UNCHANGED <<balance, available, status, txns, deposits, req, rd, loanRead>>
  /\ UNCHANGED histVars
  /\ UNCHANGED auxVars

StartEarlyRepayment(p) ==
  /\ SlotFree(p)
  /\ \E l \in Loans \cup {UnknownLoan}, a \in Accounts :
       req' = [req EXCEPT ![p] = [op |-> "earlyRepayment", from |-> a, to |-> NullId,
                                  amount |-> 0, user |-> 0, target |-> l, early |-> FALSE]]
  /\ pc' = [pc EXCEPT ![p] = "er_select"]
  /\ UNCHANGED <<rd, txLocal, result>>
  /\ UNCHANGED dbVars
  /\ UNCHANGED histVars
  /\ UNCHANGED prodVars
  /\ UNCHANGED auxVars

ErSelect(p) ==
  /\ pc[p] = "er_select"
  /\ SelectLoan(p, "active", "Loan is not active", "er_debit_sel")
  /\ UNCHANGED <<balance, available, status, txns, deposits, req, rd>>
  /\ UNCHANGED histVars
  /\ UNCHANGED auxVars

\* (variant: the pending rows are left as they are)
CancelPending_Keep(sch) == sch

\* UPDATE loan_payments SET status = 'cancelled' WHERE ... status = 'pending'
CancelPending(sch) == [i \in DOMAIN sch |-> IF sch[i] = "pending" THEN "cancelled" ELSE sch[i]]

\* UPDATE loans SET remaining_balance = 0, status = paid_off; the UPDATE of
\* loan_payments; COMMIT
ErWrite(p) ==
  /\ pc[p] = "er_write"
  /\ LET l == req[p].target IN
       IF ~schemaFits
       THEN ThrowProd(p, "statement failed")
       ELSE /\ loans' = [loans EXCEPT ![l].remaining = 0, ![l].status = "paid_off"]
            /\ schedule' = [schedule EXCEPT ![l] = CancelPending(@)]
            /\ loanLock' = ReleaseLoanLocks(p)
            /\ Return(p)
            /\ UNCHANGED <<currency, depLock, schemaFits, foreignKeys>>
  /\ UNCHANGED <<balance, available, status, txns, deposits, req, rd, loanRead>>
  /\ UNCHANGED histVars
  /\ UNCHANGED auxVars

\* ------------------------------------------------------------ closeDeposit
UnknownDeposit == MaxProcs + 1           \* a well-formed id that names no deposit

StartCloseDeposit(p) ==
  /\ SlotFree(p)
  /\ \E d \in Procs \cup {UnknownDeposit}, e \in BOOLEAN :
       req' = [req EXCEPT ![p] = [op |-> "closeDeposit", from |-> NullId, to |-> NullId,
                                  amount |-> 0, user |-> 0, target |-> d, early |-> e]]
  /\ pc' = [pc EXCEPT ![p] = "cd_select"]
  /\ UNCHANGED <<rd, txLocal, result>>
  /\ UNCHANGED dbVars
  /\ UNCHANGED histVars
  /\ UNCHANGED prodVars
  /\ UNCHANGED auxVars

\* the maturity sweep: a plain SELECT of the active deposits that are due,
\* then closeDeposit(id, false) for one that is not renewed automatically
processMaturedDeposits(p) ==
  /\ SlotFree(p)
  /\ \E d \in Procs :
       /\ deposits[d].status = "active"
       /\ deposits[d].due
       /\ ~deposits[d].auto
       /\ req' = [req EXCEPT ![p] = [op |-> "closeDeposit", from |-> NullId, to |-> NullId,
                                     amount |-> 0, user |-> 0, target |-> d,
                                     early |-> FALSE]]
  /\ pc' = [pc EXCEPT ![p] = "cd_select"]
  /\ UNCHANGED <<rd, txLocal, result>>
  /\ UNCHANGED dbVars
  /\ UNCHANGED histVars
  /\ UNCHANGED prodVars
  /\ UNCHANGED auxVars

\* deposit.status !== DepositStatus.ACTIVE refuses
Closable(st) == st = "active"

\* BEGIN; SELECT * FROM deposits ... FOR UPDATE; the two refusals; the credit
\* is skipped for a deposit without account_id
CdSelect(p) ==
  /\ pc[p] = "cd_select"
  /\ LET d == req[p].target IN
       IF d \notin Procs \/ deposits[d].status = "absent"
       THEN ThrowProd(p, "Deposit not found")
       ELSE /\ depLock[d] = 0
            /\ IF ~Closable(deposits[d].status)
               THEN ThrowProd(p, "Deposit is not active")
               ELSE /\ depLock' = [depLock EXCEPT ![d] = p]
                    /\ Step(p, IF deposits[d].account # NullId THEN "cd_credit_sel"
                                ELSE "cd_write")
                    /\ UNCHANGED <<currency, loans, schedule, loanLock, schemaFits, foreignKeys>>
  /\ UNCHANGED <<balance, available, status, txns, deposits, req, rd, loanRead>>
  /\ UNCHANGED histVars
  /\ UNCHANGED auxVars

\* UPDATE deposits SET status = closed, current_balance = returnAmount; COMMIT
CdWrite(p) ==
  /\ pc[p] = "cd_write"
  /\ LET d == req[p].target IN
       deposits' = [deposits EXCEPT ![d].status = "closed",
                                    ![d].current = ReturnAmount(deposits[d], req[p].early)]
  /\ depLock' = ReleaseDepLocks(p)
  /\ Return(p)
  /\ UNCHANGED <<balance, available, status, txns, req, rd>>
  /\ UNCHANGED <<currency, loans, schedule, loanLock, schemaFits, foreignKeys, loanRead>>
  /\ UNCHANGED histVars
  /\ UNCHANGED auxVars

\* ------------------------------------------------------------ renewDeposit
StartRenewDeposit(p) ==
  /\ SlotFree(p)
  /\ \E d \in Procs \cup {UnknownDeposit} :
       req' = [req EXCEPT ![p] = [op |-> "renewDeposit", from |-> NullId, to |-> NullId,
                                  amount |-> 0, user |-> 0, target |-> d, early |-> FALSE]]
  /\ pc' = [pc EXCEPT ![p] = "rn_select"]
  /\ UNCHANGED <<rd, txLocal, result>>
  /\ UNCHANGED dbVars
  /\ UNCHANGED histVars
  /\ UNCHANGED prodVars
  /\ UNCHANGED auxVars

\* !deposit.is_auto_renewal refuses; neither the status nor the maturity date
\* of the row is looked at
Renewable(d) == d.auto

\* BEGIN; SELECT * FROM deposits ... FOR UPDATE; the two refusals
RnSelect(p) ==
  /\ pc[p] = "rn_select"
  /\ LET d == req[p].target IN
       IF d \notin Procs \/ deposits[d].status = "absent"
       THEN ThrowProd(p, "Deposit not found")
       ELSE /\ depLock[d] = 0
            /\ IF ~Renewable(deposits[d])
               THEN ThrowProd(p, "Auto renewal is not enabled for this deposit")
               ELSE /\ depLock' = [depLock EXCEPT ![d] = p]
                    /\ Step(p, "rn_write")
                    /\ UNCHANGED <<currency, loans, schedule, loanLock, schemaFits, foreignKeys>>
  /\ UNCHANGED <<balance, available, status, txns, deposits, req, rd, loanRead>>
  /\ UNCHANGED histVars
  /\ UNCHANGED auxVars

\* the calculation renewDeposit makes from the row's columns
RenewalAmount(d) ==
  IF d.type = "fixed"
  THEN calculateCompoundDeposit(d.principal, d.rate, d.term).final_amount
  ELSE calculateDeposit(d.principal, d.rate, d.term, TRUE).final_amount

\* UPDATE deposits SET principal_amount, current_balance = final_amount,
\* start_date = now, maturity_date = now + term_months, status = active; COMMIT
RnWrite(p) ==
  /\ pc[p] = "rn_write"
  /\ LET d == req[p].target IN
       deposits' = [deposits EXCEPT ![d].principal = RenewalAmount(deposits[d]),
                                    ![d].current = RenewalAmount(deposits[d]),
                                    ![d].due = FALSE,
                                    ![d].status = "active"]
  /\ depLock' = ReleaseDepLocks(p)
  /\ Return(p)
  /\ UNCHANGED <<balance, available, status, txns, req, rd>>
  /\ UNCHANGED <<currency, loans, schedule, loanLock, schemaFits, foreignKeys, loanRead>>
  /\ UNCHANGED histVars
  /\ UNCHANGED auxVars

\* ---------------------------------------------------------- accrueInterest
StartAccrueInterest(p) ==
  /\ SlotFree(p)
  /\ \E d \in Procs \cup {UnknownDeposit} :
       req' = [req EXCEPT ![p] = [op |-> "accrueInterest", from |-> NullId, to |-> NullId,
                                  amount |-> 0, user |-> 0, target |-> d, early |-> FALSE]]
  /\ pc' = [pc EXCEPT ![p] = "ai_select"]
  /\ UNCHANGED <<rd, txLocal, result>>
  /\ UNCHANGED dbVars
  /\ UNCHANGED histVars
  /\ UNCHANGED prodVars
  /\ UNCHANGED auxVars

\* BEGIN; SELECT * FROM deposits ... FOR UPDATE; the two refusals
AiSelect(p) ==
  /\ pc[p] = "ai_select"
  /\ LET d == req[p].target IN
       IF d \notin Procs \/ deposits[d].status = "absent"
       THEN ThrowProd(p, "Deposit not found")
       ELSE /\ depLock[d] = 0
            /\ IF ~Closable(deposits[d].status)
               THEN ThrowProd(p, "Deposit is not active")
               ELSE /\ depLock' = [depLock EXCEPT ![d] = p]
                    /\ Step(p, "ai_write")
                    /\ UNCHANGED <<currency, loans, schedule, loanLock, schemaFits, foreignKeys>>
  /\ UNCHANGED <<balance, available, status, txns, deposits, req, rd, loanRead>>
  /\ UNCHANGED histVars
  /\ UNCHANGED auxVars

\* interestAmount = deposit.current_balance * monthlyRate (a number)
InterestAmount(d) == QMul(Qi(d.current), MonthlyRate(d.rate))

\* newBalance = deposit.current_balance + interestAmount: the column is a
\* text, so the sum is the text followed by the number's digits
NewBalance(d) == JsTextPlus(d.current, InterestAmount(d))

\* what the UPDATE of current_balance stores: the parameter rounded to two
\* decimals, or nothing when the parameter is no numeric text
AccruedBalance(d) ==
  IF IsNaN(NewBalance(d)) THEN [ok |-> FALSE, current |-> d.current]
  ELSE [ok |-> TRUE, current |-> Round2(NewBalance(d))]

\* for a fixed deposit UPDATE deposits SET current_balance = newBalance; COMMIT
AiWrite(p) ==
  /\ pc[p] = "ai_write"
  /\ LET d == req[p].target IN
       IF deposits[d].type = "fixed" /\ ~AccruedBalance(deposits[d]).ok
       THEN /\ ThrowProd(p, "invalid input syntax")
            /\ UNCHANGED deposits
       ELSE /\ deposits' = [deposits EXCEPT ![d].current =
                              IF deposits[d].type = "fixed"
                              THEN AccruedBalance(deposits[d]).current ELSE @]
            /\ depLock' = ReleaseDepLocks(p)
            /\ Return(p)
            /\ UNCHANGED <<currency, loans, schedule, loanLock, schemaFits, foreignKeys>>
  /\ UNCHANGED <<balance, available, status, txns, req, rd, loanRead>>
  /\ UNCHANGED histVars
  /\ UNCHANGED auxVars

\* ------------------------------------------------------- toggleAutoRenewal
\* one UPDATE deposits SET is_auto_renewal = enabled WHERE id = depositId on
\* the pool: it waits for a lock on the row and looks at no column of it
toggleAutoRenewal(p) ==
  /\ SlotFree(p)
  /\ \E d \in Procs, enabled \in BOOLEAN :
       /\ deposits[d].status # "absent"
       /\ depLock[d] = 0
       /\ req' = [req EXCEPT ![p] = [op |-> "toggleAutoRenewal", from |-> NullId,
                                     to |-> NullId, amount |-> 0, user |-> 0,
                                     target |-> d, early |-> enabled]]
       /\ deposits' = [deposits EXCEPT ![d].auto = enabled]
  /\ pc' = [pc EXCEPT ![p] = "done"]
  /\ result' = [result EXCEPT ![p] = [status |-> "ok", err |-> "", at |-> "",
                                      value |-> "undefined"]]
  /\ UNCHANGED <<balance, available, status, txns, rd, txLocal, rowLock>>
  /\ UNCHANGED histVars
  /\ UNCHANGED prodVars
  /\ UNCHANGED auxVars

\* ------------------------------------------------- processMaturedDeposits
StartSweep(p) ==
  /\ SlotFree(p)
  /\ req' = [req EXCEPT ![p] = [op |-> "processMaturedDeposits", from |-> NullId,
                                to |-> NullId, amount |-> 0, user |-> 0, target |-> 0,
                                early |-> FALSE]]
  /\ pc' = [pc EXCEPT ![p] = "pm_select"]
  /\ UNCHANGED <<rd, txLocal, result>>
  /\ UNCHANGED dbVars
  /\ UNCHANGED histVars
  /\ UNCHANGED prodVars
  /\ UNCHANGED auxVars

\* the rows the SELECT of checkMaturedDeposits returns
Matured == {d \in Procs : deposits[d].status = "active" /\ deposits[d].due}

\* the orders a SELECT without ORDER BY can return a set of rows in
Orderings(S) ==
  {sq \in [1..Cardinality(S) -> S] : \A i, j \in DOMAIN sq : i # j => sq[i] # sq[j]}

\* checkMaturedDeposits: a plain SELECT; the sweep keeps the rows it returned
\* (id and is_auto_renewal as they were then)
checkMaturedDeposits(p) ==
  /\ pc[p] = "pm_select"
  /\ \E order \in Orderings(Matured) :
       sweep' = [sweep EXCEPT ![p] =
                   [sel |-> [i \in DOMAIN order |->
                               [id |-> order[i], auto |-> deposits[order[i]].auto]],
                    idx |-> 1, tried |-> << >>, failed |-> {}]]
  /\ pc' = [pc EXCEPT ![p] = "pm_loop"]
  /\ UNCHANGED <<req, rd, txLocal, result, calc, clock, reference, refRows>>
  /\ UNCHANGED dbVars
  /\ UNCHANGED histVars
  /\ UNCHANGED prodVars

\* the head of the for loop: the next row of the list goes to renewDeposit
\* or to closeDeposit(id, false) by the row's is_auto_renewal; after the last
\* row the sweep logs and returns
PmLoop(p) ==
  /\ pc[p] = "pm_loop"
  /\ IF sweep[p].idx > Len(sweep[p].sel)
     THEN /\ Return(p)
          /\ UNCHANGED <<req, sweep>>
     ELSE LET item == sweep[p].sel[sweep[p].idx] IN
          /\ req' = [req EXCEPT ![p].target = item.id]
          /\ sweep' = [sweep EXCEPT ![p].tried = Append(@, item.id)]
          /\ Step(p, IF item.auto THEN "rn_select" ELSE "cd_select")
  /\ UNCHANGED <<rd, calc, clock, reference, refRows>>
  /\ UNCHANGED dbVars
  /\ UNCHANGED histVars
  /\ UNCHANGED prodVars

\* a sweep is inside its loop
Sweeping(p) ==
  /\ req[p].op = "processMaturedDeposits"
  /\ sweep[p].idx >= 1
  /\ sweep[p].idx <= Len(sweep[p].sel)

\* (variant: the error of one deposit leaves the loop)
PmAfter_Rethrow(p) == IF result[p].status = "error" THEN "done" ELSE "pm_loop"

\* the call on one row returned or its error was caught and logged: on to
\* the next row either way
PmAfter(p) == "pm_loop"

PmNext(p) ==
  /\ pc[p] = "done"
  /\ Sweeping(p)
  /\ sweep' = [sweep EXCEPT ![p].idx = IF PmAfter(p) = "pm_loop" THEN @ + 1
                                       ELSE Len(sweep[p].sel) + 1,
                            ![p].failed = IF result[p].status = "error"
                                          THEN @ \cup {req[p].target} ELSE @]
  /\ pc' = [pc EXCEPT ![p] = PmAfter(p)]
  /\ UNCHANGED <<req, rd, txLocal, result, calc, clock, reference, refRows>>
  /\ UNCHANGED dbVars
  /\ UNCHANGED histVars
  /\ UNCHANGED prodVars

\* ----------------------------------------------------- infrastructure fault
\* a database call fails (connection lost, pool timeout): the pending await
\* rejects and the catch blocks run
FaultPoints == {"ct_checkFrom", "ct_checkTo", "ct_insert", "ct_debit_sel", "ct_debit_upd",
                "ct_credit_sel", "ct_credit_upd", "ct_commit", "ct_reread",
                "od_owner", "od_debit_sel", "od_debit_upd", "od_insert",
                "cx_select", "cx_update", "ca_select", "ca_update",
                "al_select", "al_account", "al_credit_sel", "al_credit_upd", "al_write",
                "mp_select", "mp_debit_sel", "mp_debit_upd", "mp_write",
                "er_select", "er_debit_sel", "er_debit_upd", "er_write", "rl_update",
                "cd_select", "cd_credit_sel", "cd_credit_upd", "cd_write",
                "rn_select", "rn_write", "ai_select", "ai_write", "pm_select",
                "rf_insert", "rf_commit"}

Fault(p) ==
  /\ faults > 0
  /\ pc[p] \in FaultPoints
  /\ faults' = faults - 1
  /\ Throw(p, "fault")
  /\ UNCHANGED <<balance, available, status, txns, deposits, req, rd>>
  /\ UNCHANGED <<legs, delta, obs, initBalance>>
  /\ ProdOnExit(p)
  /\ UNCHANGED auxVars

Next ==
  \E p \in Procs :
    \/ StartCreateTransaction(p)
    \/ CtCheckFrom(p)
    \/ CtCheckTo(p)
    \/ CtInsert(p)
    \/ UbSelect(p)
    \/ UbUpdate(p)
    \/ CtCommit(p)
    \/ CtReread(p)
    \/ StartOpenDeposit(p)
    \/ OdOwner(p)
    \/ OdInsert(p)
    \/ Fault(p)

Spec == Init /\ [][Next]_vars

\* the same operations and cancelTransaction, over a table that may hold a
\* legacy pending row
NextCancel ==
  \/ Next
  \/ \E p \in Procs :
       \/ StartCancelTransaction(p)
       \/ CxSelect(p)
       \/ CxUpdate(p)

SpecCancel == InitCancel /\ [][NextCancel]_vars

\* transfers racing with the account status transitions
NextStatus ==
  \/ \E p \in Procs :
       \/ StartCreateTransaction(p)
       \/ CtCheckFrom(p)
       \/ CtCheckTo(p)
       \/ CtInsert(p)
       \/ UbSelect(p)
       \/ UbUpdate(p)
       \/ CtCommit(p)
       \/ CtReread(p)
       \/ StartCloseAccount(p)
       \/ CaSelect(p)
       \/ CaUpdate(p)
  \/ \E a \in Accounts :
       \/ blockAccount(a)
       \/ unblockAccount(a)

\* account 1 is funded, account 2 is empty and so can be closed
InitStatus ==
  /\ balance = [a \in Accounts |-> IF a = 1 THEN MaxInitBalance ELSE 0]
  /\ available = balance
  /\ initBalance = balance
  /\ txns = SeedTxns(balance, NoRow)
  /\ InitRequests
  /\ InitNoProducts
  /\ AnyDatabase
  /\ InitNoAux

SpecStatus == InitStatus /\ [][NextStatus]_vars

\* the three transfer entry points over accounts of either currency
InitTransfer ==
  /\ balance = [a \in Accounts |-> MaxInitBalance]
  /\ available = balance
  /\ initBalance = balance
  /\ txns = SeedTxns(balance, NoRow)
  /\ InitRequests
  /\ currency \in [Accounts -> Currencies]
  /\ depLock = [d \in Procs |-> 0]
  /\ InitNoLoans
  /\ AnyDatabase
  /\ InitNoAux

NextTransfer ==
  \E p \in Procs :
    \/ StartCreateTransaction(p)
    \/ StartTransferToAccount(p)
    \/ TaDest(p)
    \/ TaSrc(p)
    \/ StartTransferToPhone(p)
    \/ TpUser(p)
    \/ TpSrc(p)
    \/ TpDest(p)
    \/ CtCheckFrom(p)
    \/ CtCheckTo(p)
    \/ CtInsert(p)
    \/ UbSelect(p)
    \/ UbUpdate(p)
    \/ CtCommit(p)
    \/ CtReread(p)

SpecTransfer == InitTransfer /\ [][NextTransfer]_vars

\* the loan operations over one loan of user 1: either a fresh application
\* (createLoanApplication: pending, remaining_balance = principal_amount) or a
\* loan that approveLoan has disbursed into the empty account 1
PendingLoan(pr, tm) ==
  [user |-> 1, account |-> NullId, principal |-> pr, remaining |-> pr,
   term |-> tm, status |-> "pending", nextDue |-> 0]
DisbursedLoan(pr, tm) ==
  [user |-> 1, account |-> 1, principal |-> pr, remaining |-> pr,
   term |-> tm, status |-> "active", nextDue |-> 1]

\* principals applied for: 0.01, 0.02 and the whole unit 1.00
LoanPrincipals == (1..MaxAmount) \cup {100}

InitLoan ==
  /\ InitRequests
  /\ currency = [a \in Accounts |-> "KZT"]
  /\ depLock = [d \in Procs |-> 0]
  /\ loanLock = [l \in Loans |-> 0]
  /\ loanRead = [p \in Procs |-> NoLoan]
  /\ schemaFits \in BOOLEAN
  /\ SchemaDatabase
  /\ \E pr \in LoanPrincipals, tm \in 1..MaxTerm :
       \/ /\ loans = [l \in Loans |-> PendingLoan(pr, tm)]
          /\ schedule = [l \in Loans |-> << >>]
          /\ balance \in [Accounts -> {0, MaxInitBalance}]
       \/ /\ schemaFits
          /\ pr <= MaxAmount
          /\ loans = [l \in Loans |-> DisbursedLoan(pr, tm)]
          /\ schedule = [l \in Loans |-> NewSchedule(tm)]
          /\ balance = [a \in Accounts |-> IF a = 1 THEN pr ELSE 0]
  /\ available = balance
  /\ initBalance = balance
  /\ txns = SeedTxns([a \in Accounts |-> 0], NoRow)
  /\ InitNoAux

NextLoan ==
  \E p \in Procs :
    \/ StartApproveLoan(p)
    \/ AlSelect(p)
    \/ AlAccount(p)
    \/ AlWrite(p)
    \/ StartRejectLoan(p)
    \/ RlUpdate(p)
    \/ StartMakeLoanPayment(p)
    \/ MpSelect(p)
    \/ MpWrite(p)
    \/ StartEarlyRepayment(p)
    \/ ErSelect(p)
    \/ ErWrite(p)
    \/ UbSelect(p)
    \/ UbUpdate(p)
    \/ Fault(p)

SpecLoan == InitLoan /\ [][NextLoan]_vars

\* closeDeposit on its own: a deposit opened earlier from account 1 at
\* interest rate 0 is due; requests and the sweep close it
OpenedDeposit(pr) == [NewDeposit(1, pr) EXCEPT !.due = TRUE]

InitDeposit ==
  /\ balance \in [Accounts -> 0..MaxInitBalance]
  /\ available = balance
  /\ initBalance = balance
  /\ txns = SeedTxns(balance, NoRow)
  /\ rowLock = [a \in Accounts |-> 0]
  /\ status = [a \in Accounts |-> "active"]
  /\ \E pr \in 1..MaxAmount :
       deposits = [d \in Procs |-> IF d = 1 THEN OpenedDeposit(pr) ELSE NoDeposit]
  /\ pc = [p \in Procs |-> "idle"]
  /\ req = [p \in Procs |-> NoReq]
  /\ rd = [p \in Procs |-> NoRead]
  /\ txLocal = [p \in Procs |-> "none"]
  /\ result = [p \in Procs |-> NoResult]
  /\ legs = [p \in Procs |-> {}]
  /\ delta = [p \in Procs |-> NoDelta]
  /\ obs = [p \in Procs |-> NoObs]
  /\ faults = MaxFaults
  /\ currency = [a \in Accounts |-> "KZT"]
  /\ depLock = [d \in Procs |-> 0]
  /\ InitNoLoans
  /\ SchemaDatabase
  /\ InitNoAux

NextDeposit ==
  \E p \in Procs :
    \/ StartCloseDeposit(p)
    \/ processMaturedDeposits(p)
    \/ CdSelect(p)
    \/ UbSelect(p)
    \/ UbUpdate(p)
    \/ CdWrite(p)
    \/ Fault(p)

SpecDeposit == InitDeposit /\ [][NextDeposit]_vars

\* the life of deposits: two deposits of 10.00 at 120 percent a year opened
\* earlier from account 1, both due; requests close, renew and accrue them and toggle
\* their renewal while the maturity sweep runs. With these amounts every
\* interest is a whole number of currency units
DepositTypes == {"fixed", "flexible", "savings"}
SavingsBalances == {0, 100, 150}         \* 0.00, 1.00, 1.50
SavedDeposit(ty, tm, au, du) ==
  [account |-> 1, principal |-> 1000, current |-> 1000, status |-> "active",
   type |-> ty, rate |-> 120, term |-> tm, auto |-> au, due |-> du]

InitSavings ==
  /\ \E b \in SavingsBalances : balance = [a \in Accounts |-> IF a = 1 THEN b ELSE 0]
  /\ available = balance
  /\ initBalance = balance
  /\ txns = SeedTxns(balance, NoRow)
  /\ rowLock = [a \in Accounts |-> 0]
  /\ status = [a \in Accounts |-> "active"]
  /\ \E ty \in DepositTypes, au1 \in BOOLEAN, au2 \in BOOLEAN :
       deposits = [d \in Procs |-> IF d = 1 THEN SavedDeposit(ty, MaxTerm, au1, TRUE)
                                   ELSE SavedDeposit("fixed", 1, au2, TRUE)]
  /\ pc = [p \in Procs |-> "idle"]
  /\ req = [p \in Procs |-> NoReq]
  /\ rd = [p \in Procs |-> NoRead]
  /\ txLocal = [p \in Procs |-> "none"]
  /\ result = [p \in Procs |-> NoResult]
  /\ legs = [p \in Procs |-> {}]
  /\ delta = [p \in Procs |-> NoDelta]
  /\ obs = [p \in Procs |-> NoObs]
  /\ faults = MaxFaults
  /\ currency = [a \in Accounts |-> "KZT"]
  /\ depLock = [d \in Procs |-> 0]
  /\ InitNoLoans
  /\ SchemaDatabase
  /\ InitNoAux

NextSavings ==
  \E p \in Procs :
    \/ StartCloseDeposit(p)
    \/ StartRenewDeposit(p)
    \/ StartAccrueInterest(p)
    \/ toggleAutoRenewal(p)
    \/ StartSweep(p)
    \/ checkMaturedDeposits(p)
    \/ PmLoop(p)
    \/ PmNext(p)
    \/ CdSelect(p)
    \/ UbSelect(p)
    \/ UbUpdate(p)
    \/ CdWrite(p)
    \/ RnSelect(p)
    \/ RnWrite(p)
    \/ AiSelect(p)
    \/ AiWrite(p)
    \/ Fault(p)

SpecSavings == InitSavings /\ [][NextSavings]_vars

\* the same with the scheduling the runtime gives: the event loop resumes
\* every request whose awaited call has settled, and PostgreSQL grants a row
\* lock once it is free; requests arriving and connections failing are under
\* no such obligation
Resume(p) ==
  \/ checkMaturedDeposits(p)
  \/ PmLoop(p)
  \/ PmNext(p)
  \/ CdSelect(p)
  \/ UbSelect(p)
  \/ UbUpdate(p)
  \/ CdWrite(p)
  \/ RnSelect(p)
  \/ RnWrite(p)
  \/ AiSelect(p)
  \/ AiWrite(p)

\* started with account 1 at 1.00, deposit 1 flexible and deposit 2 not to
\* be renewed
InitSweep ==
  /\ InitSavings
  /\ balance[1] = 100
  /\ deposits[1].type = "flexible"
  /\ ~deposits[2].auto

SpecSweep == InitSweep /\ [][NextSavings]_vars /\ \A p \in Procs : WF_vars(Resume(p))

\* ------------------------------------------------------------------ waiting
\* createTransaction and openDeposit on funded accounts, under the scheduling
\* the runtime gives: a request whose awaited statement can complete is
\* resumed, and PostgreSQL grants a lock once nothing conflicts with it.
\* No statement carries a timeout (the pool sets connectionTimeoutMillis
\* only, which bounds the wait for a connection, not for a lock)
InitLocks ==
  /\ balance = [a \in Accounts |-> MaxInitBalance]
  /\ available = balance
  /\ initBalance = balance
  /\ txns = SeedTxns(balance, NoRow)
  /\ InitRequests
  /\ InitNoProducts
  /\ AnyDatabase
  /\ InitNoAux

Proceed(p) ==
  \/ CtCheckFrom(p)
  \/ CtCheckTo(p)
  \/ CtInsert(p)
  \/ UbSelect(p)
  \/ UbUpdate(p)
  \/ CtCommit(p)
  \/ CtReread(p)
  \/ OdOwner(p)
  \/ OdInsert(p)

NextLocks ==
  \E p \in Procs :
    \/ StartCreateTransaction(p)
    \/ StartOpenDeposit(p)
    \/ Proceed(p)

SpecLocks == InitLocks /\ [][NextLocks]_vars /\ \A p \in Procs : WF_vars(Proceed(p))

\* ------------------------------------------------------ reference numbers
\* createTransaction as far as the reference number goes: it is generated
\* at the start, inserted with the row in the caller's transaction and
\* committed with it; the account checks and ledger legs in between read and
\* write no reference number
Tick ==
  /\ clock < MaxClock
  /\ clock' = clock + 1
  /\ UNCHANGED <<calc, sweep, reference, refRows>>
  /\ UNCHANGED dbVars
  /\ UNCHANGED procVars
  /\ UNCHANGED histVars
  /\ UNCHANGED prodVars

\* TXN-<Date.now() in base 36>-<6 random bytes in hex>: the text is one to
\* one with the pair of the millisecond and the bytes
generateReferenceNumber(p) ==
  /\ SlotFree(p)
  /\ \E random \in 0..MaxRandom :
       reference' = [reference EXCEPT ![p] = [ts |-> clock, rnd |-> random]]
  /\ req' = [req EXCEPT ![p] = [op |-> "createTransaction", from |-> 1, to |-> NullId,
                                amount |-> 1, user |-> 0, target |-> 0, early |-> FALSE]]
  /\ pc' = [pc EXCEPT ![p] = "rf_insert"]
  /\ UNCHANGED <<rd, txLocal, result, calc, sweep, clock, refRows>>
  /\ UNCHANGED dbVars
  /\ UNCHANGED histVars
  /\ UNCHANGED prodVars

\* a row with this reference_number is committed
Persisted(r) == \E i \in DOMAIN refRows : refRows[i] = r

\* another open transaction has inserted a row with this reference_number
InsertedBy(p, r) ==
  \E q \in Procs \ {p} : txLocal[q] = "pending" /\ pc[q] = "rf_commit" /\ reference[q] = r

\* INSERT INTO transactions (..., reference_number, ...) under UNIQUE: it
\* waits for an open transaction that inserted the same value and is refused
\* when the value is committed
RfInsert(p) ==
  /\ pc[p] = "rf_insert"
  /\ ~InsertedBy(p, reference[p])
  /\ IF Persisted(reference[p])
     THEN Throw(p, "unique_violation")
     ELSE /\ pc' = [pc EXCEPT ![p] = "rf_commit"]
          /\ txLocal' = [txLocal EXCEPT ![p] = "pending"]
          /\ UNCHANGED <<result, rowLock>>
  /\ UNCHANGED <<balance, available, status, txns, deposits, req, rd>>
  /\ UNCHANGED histVars
  /\ UNCHANGED prodVars
  /\ UNCHANGED auxVars

\* COMMIT: the row is persisted
RfCommit(p) ==
  /\ pc[p] = "rf_commit"
  /\ refRows' = Append(refRows, reference[p])
  /\ pc' = [pc EXCEPT ![p] = "done"]
  /\ txLocal' = [txLocal EXCEPT ![p] = "completed"]
  /\ result' = [result EXCEPT ![p] = [status |-> "ok", err |-> "", at |-> "",
                                      value |-> ReturnValue(req[p].op)]]
  /\ UNCHANGED <<req, rd, calc, sweep, clock, reference>>
  /\ UNCHANGED dbVars
  /\ UNCHANGED histVars
  /\ UNCHANGED prodVars

NextReference ==
  \/ Tick
  \/ \E p \in Procs :
       \/ generateReferenceNumber(p)
       \/ RfInsert(p)
       \/ RfCommit(p)
       \/ Fault(p)

SpecReference == Init /\ [][NextReference]_vars

\* ------------------------------------------------------- the calculators
\* the calculators called on their own (the calculator endpoints and the
\* services call them with no state in between): arguments are drawn at the
\* start, each function is applied once
CalcPrincipals == {100, 200, 1000}       \* 1.00, 2.00, 10.00
CalcRates == {0, 120, 600}               \* percent a year
CalcTerms == 1..MaxCalcTerm

InitCalc ==
  /\ balance = [a \in Accounts |-> 0]
  /\ available = balance
  /\ initBalance = balance
  /\ txns = SeedTxns(balance, NoRow)
  /\ InitRequests
  /\ InitNoProducts
  /\ SchemaDatabase
  /\ \E pr \in CalcPrincipals, rt \in CalcRates, tm \in CalcTerms :
       calc = [NoCalc EXCEPT !.principal = pr, !.rate = rt, !.term = tm]
  /\ sweep = [p \in Procs |-> NoSweep]
  /\ clock = 0
  /\ reference = [p \in Procs |-> NoRef]
  /\ refRows = << >>

CalcFrame ==
  /\ UNCHANGED dbVars
  /\ UNCHANGED procVars
  /\ UNCHANGED histVars
  /\ UNCHANGED prodVars
  /\ UNCHANGED <<sweep, clock, reference, refRows>>

ApplyCalculateLoan ==
  /\ "calculateLoan" \notin calc.applied
  /\ calc' = [calc EXCEPT !.applied = @ \cup {"calculateLoan"},
                          !.loan = calculateLoan(calc.principal, calc.rate, calc.term)]
  /\ CalcFrame

ApplyCalculateDeposit ==
  /\ "calculateDeposit" \notin calc.applied
  /\ calc' = [calc EXCEPT !.applied = @ \cup {"calculateDeposit"},
                          !.simple = calculateDeposit(calc.principal, calc.rate,
                                                      calc.term, FALSE)]
  /\ CalcFrame

ApplyCalculateCompoundDeposit ==
  /\ "calculateCompoundDeposit" \notin calc.applied
  /\ calc' = [calc EXCEPT !.applied = @ \cup {"calculateCompoundDeposit"},
                          !.compound = calculateCompoundDeposit(calc.principal, calc.rate,
                                                                calc.term)]
  /\ CalcFrame

\* calculateDeposit as closeDeposit and renewDeposit call it, on the columns
\* of a row
ApplyCalculateDepositOnRow ==
  /\ "row" \notin calc.applied
  /\ calc' = [calc EXCEPT !.applied = @ \cup {"row"},
                          !.row = calculateDeposit(calc.principal, calc.rate,
                                                   calc.term, TRUE)]
  /\ CalcFrame

NextCalc ==
  \/ ApplyCalculateLoan
  \/ ApplyCalculateDeposit
  \/ ApplyCalculateCompoundDeposit
  \/ ApplyCalculateDepositOnRow

SpecCalc == InitCalc /\ [][NextCalc]_vars

\* ------------------------------------------------------------ properties
RECURSIVE SumFn(_, _)
SumFn(fn, S) ==
  IF S = {} THEN 0
  ELSE LET x == CHOOSE y \in S : TRUE IN fn[x] + SumFn(fn, S \ {x})

IsCreateTransaction(p) == req[p].op = "createTransaction"
IsInternalTransfer(p) ==
  IsCreateTransaction(p) /\ req[p].from \in Accounts /\ req[p].to \in Accounts
Finished(p) == pc[p] = "done"
NetDelta(p) == delta[p].debit + delta[p].credit

\* amounts of the committed credit and debit legs on account a
CommittedCredits(a) ==
  SumFn([p \in Procs |-> IF "credit" \in legs[p] /\ req[p].to = a
                         THEN req[p].amount ELSE 0], Procs)
CommittedDebits(a) ==
  SumFn([p \in Procs |-> IF "debit" \in legs[p] /\ req[p].from = a
                         THEN req[p].amount ELSE 0], Procs)

\* completed transaction records into and out of account a
RecordedIn(a) ==
  SumFn([t \in TxIds |-> IF txns[t].status = "completed" /\ txns[t].to = a
                         THEN txns[t].amount ELSE 0], TxIds)
RecordedOut(a) ==
  SumFn([t \in TxIds |-> IF txns[t].status = "completed" /\ txns[t].from = a
                         THEN txns[t].amount ELSE 0], TxIds)

\* C1: internal transfers never change the sum of the committed balances, in
\* any state: the sum is the initial sum plus what the other operations
\* (one-sided transactions, deposit openings) have moved in or out
C1_SumConserved ==
  SumFn(balance, Accounts) =
    SumFn(initBalance, Accounts)
    + SumFn([p \in Procs |-> IF IsInternalTransfer(p) THEN 0 ELSE NetDelta(p)], Procs)

\* C2: a createTransaction that failed at validation, insert, debit, credit,
\* status update or commit has changed no balance and left no transaction row
C2_FailureRollsBackAll ==
  \A p \in Procs :
    (IsCreateTransaction(p) /\ Finished(p) /\ result[p].status = "error"
       /\ result[p].at # "ct_reread")
    => (legs[p] = {} /\ delta[p] = NoDelta /\ txns[TxId(p)] = NoRow)

C4_Serialized ==
  \A a \in Accounts :
    /\ balance[a] = initBalance[a] + CommittedCredits(a) - CommittedDebits(a)
    /\ available[a] = balance[a]
    /\ CommittedDebits(a) <= initBalance[a] + CommittedCredits(a)

\* two debits that each fit the balance but not together: one committed, the
\* other was refused
C4_Witness ==
  \E a \in Accounts, p \in Procs, q \in Procs :
    /\ p # q /\ req[p].from = a /\ req[q].from = a
    /\ CommittedCredits(a) = 0
    /\ req[p].amount <= initBalance[a] /\ req[q].amount <= initBalance[a]
    /\ req[p].amount + req[q].amount > initBalance[a]
    /\ "debit" \in legs[p]
    /\ result[q].err = "Insufficient funds"

\* C5: a createTransaction with both legs that returned successfully moved
\* exactly amount out of the source and into the destination and left its row
\* completed, naming both accounts
C5_TransferEffect ==
  \A p \in Procs :
    (IsCreateTransaction(p) /\ result[p].status = "ok"
       /\ req[p].from # NullId /\ req[p].to # NullId)
    => /\ legs[p] = {"debit", "credit"}
       /\ delta[p] = [debit |-> 0 - req[p].amount, credit |-> req[p].amount]
       /\ txns[TxId(p)] = [from |-> req[p].from, to |-> req[p].to,
                           amount |-> req[p].amount, status |-> "completed"]
       /\ ((req[p].from # req[p].to /\ \A q \in Procs \ {p} : legs[q] = {})
           => /\ balance[req[p].from] = initBalance[req[p].from] - req[p].amount
              /\ balance[req[p].to] = initBalance[req[p].to] + req[p].amount)

\* the scenario of the specification, in units: A = 2, B = 0, transfer 1
C5_Witness ==
  \E p \in Procs :
    /\ IsCreateTransaction(p) /\ result[p].status = "ok"
    /\ req[p].from = 1 /\ req[p].to = 2 /\ req[p].amount = 1
    /\ initBalance[1] = 2 /\ initBalance[2] = 0
    /\ balance[1] = 1 /\ balance[2] = 1
    /\ txns[TxId(p)].status = "completed"

\* C6: a ledger debit with available_balance < amount fails with
\* "Insufficient funds" and changes neither field; any other debit decrements
\* both fields by amount; a credit increments both by amount
LedgerStep(p) == pc[p] \in UpdateLabels /\ pc'[p] # pc[p] /\ faults' = faults

C7_BalanceMatchesRecords ==
  \A a \in Accounts : balance[a] = RecordedIn(a) - RecordedOut(a)

\* C8: no transaction row this program inserted is ever committed with status
\* pending (the only pending row a caller can see is the legacy one)
C8_NoCommittedPending == \A t \in TxIds \ {LegacyId} : txns[t].status # "pending"

\* a request holds its pending row uncommitted, and a request whose debit was
\* refused has left no row
C8_Witness ==
  \E p \in Procs, q \in Procs :
    /\ txLocal[p] = "pending" /\ txns[TxId(p)] = NoRow
    /\ IsCreateTransaction(q) /\ result[q].err = "Insufficient funds"
    /\ txns[TxId(q)] = NoRow

\* C9: cancelTransaction succeeds only on a row it saw pending, which it sets
\* to cancelled; on a completed, failed or cancelled row it fails with the
\* not-cancellable error and changes nothing; a row in a terminal status
\* never changes again
TerminalStatus == {"completed", "failed", "cancelled"}
IsCancel(p) == req[p].op = "cancelTransaction"

C9_CancelOutcome ==
  \A p \in Procs :
    (IsCancel(p) /\ Finished(p)) =>
      /\ result[p].status = "ok" =>
           (rd[p].seen = "pending" /\ txns[req[p].target].status = "cancelled")
      /\ rd[p].seen \in TerminalStatus =>
           (result[p].status = "error"
            /\ result[p].err = "Only pending transactions can be cancelled")

C9_TerminalFrozen ==
  /\ \A t \in TxIds : txns[t].status \in TerminalStatus => txns'[t] = txns[t]
  /\ \A p \in Procs :
       (IsCancel(p) /\ result[p].status # "error" /\ result'[p].status = "error")
       => (txns' = txns /\ balance' = balance /\ available' = available)

C9_CancelOnlyPending == [] C9_CancelOutcome /\ [][C9_TerminalFrozen]_vars

\* the legacy pending row was cancelled, a later cancel of a terminal row was
\* refused, and a createTransaction completed alongside
C9_Witness ==
  /\ txns[LegacyId].status = "cancelled"
  /\ \E p \in Procs :
       /\ IsCancel(p) /\ rd[p].seen \in TerminalStatus
       /\ result[p].err = "Only pending transactions can be cancelled"

\* C10: a createTransaction that names no account at all, or an account that
\* does not exist or that it saw not active, fails, commits no ledger leg and
\* leaves no transaction row
NamesNoUsableAccount(p) ==
  \/ (req[p].from = NullId /\ req[p].to = NullId)
  \/ obs[p].from \notin {"unread", "active"}
  \/ obs[p].to \notin {"unread", "active"}

C10_InvalidRejected ==
  \A p \in Procs :
    (IsCreateTransaction(p) /\ Finished(p) /\ NamesNoUsableAccount(p))
    => /\ result[p].status = "error"
       /\ legs[p] = {} /\ delta[p] = NoDelta
       /\ txns[TxId(p)] = NoRow

\* one request named no account, another named a blocked or closed one
C10_Witness ==
  \E p \in Procs, q \in Procs :
    /\ IsCreateTransaction(p) /\ Finished(p)
    /\ req[p].from = NullId /\ req[p].to = NullId /\ req[p].amount > 0
    /\ IsCreateTransaction(q) /\ Finished(q)
    /\ (obs[q].from \in {"blocked", "closed"} \/ obs[q].to \in {"blocked", "closed"})

\* C11: no completed transaction row names two accounts of different
\* currencies, and a transferToAccount between accounts of different
\* currencies fails with the currency-mismatch error and commits no ledger leg
C11_NoCrossCurrency ==
  /\ \A t \in TxIds :
       (txns[t].status = "completed" /\ txns[t].from \in Accounts /\ txns[t].to \in Accounts)
       => currency[txns[t].from] = currency[txns[t].to]
  /\ \A p \in Procs :
       (req[p].op = "transferToAccount" /\ Finished(p)
          /\ req[p].from \in Accounts /\ req[p].to \in Accounts
          /\ currency[req[p].from] # currency[req[p].to])
       => (result[p].err = "Currency mismatch" /\ legs[p] = {} /\ txns[TxId(p)] = NoRow)

\* C12: an account whose status is closed has balance 0, in every state, and
\* a closeAccount that read a non-zero balance failed with the non-zero-balance
\* error
C12_ClosedHasZeroBalance ==
  /\ \A a \in Accounts : status[a] = "closed" => balance[a] = 0
  /\ \A p \in Procs :
       (req[p].op = "closeAccount" /\ Finished(p) /\ req[p].from \in Accounts
          /\ rd[p].bal # 0)
       => result[p].err = "Cannot close account with non-zero balance"

\* C13: once an account is closed its status never changes again
C13_ClosedIsTerminal ==
  [][\A a \in Accounts : status[a] = "closed" => status'[a] = "closed"]_vars

\* C14: an approveLoan that failed has credited nothing and left the loan as
\* it was; one that succeeded has credited exactly principal_amount to the
\* account and left the loan active with its whole schedule
IsApproveLoan(p) == req[p].op = "approveLoan"

C14_ApproveAllOrNothing ==
  \A p \in Procs :
    (IsApproveLoan(p) /\ Finished(p)) =>
      /\ result[p].status = "error" => (legs[p] = {} /\ delta[p] = NoDelta)
      /\ result[p].status = "ok" =>
           /\ delta[p].credit = loanRead[p].principal
           /\ loans[req[p].target].status # "pending"
           /\ Len(schedule[req[p].target]) = loanRead[p].term

\* C15: a loan's status only moves pending -> active, active -> paid_off,
\* active -> defaulted or pending -> rejected; approveLoan and rejectLoan
\* succeed only on a loan they found pending, makeLoanPayment and
\* earlyRepayment only on one they found active
AllowedLoanMoves ==
  {<<"pending", "active">>, <<"active", "paid_off">>, <<"active", "defaulted">>,
   <<"pending", "rejected">>}

C15_LoanOutcome ==
  \A p \in Procs :
    result[p].status = "ok" =>
      /\ req[p].op \in {"approveLoan", "rejectLoan"} => loanRead[p].status = "pending"
      /\ req[p].op \in {"makeLoanPayment", "earlyRepayment"} => loanRead[p].status = "active"

C15_LoanMove ==
  \A l \in Loans :
    loans'[l].status # loans[l].status
      => <<loans[l].status, loans'[l].status>> \in AllowedLoanMoves

C15_LoanStatusPath == [] C15_LoanOutcome /\ [][C15_LoanMove]_vars

\* C16: while a loan is active its remaining_balance never increases and is
\* never negative
C16_RemainingNeverIncreases ==
  [][\A l \in Loans :
       loans[l].status = "active"
         => (loans'[l].remaining <= loans[l].remaining /\ loans'[l].remaining >= 0)]_vars

\* C17: the step that completes a makeLoanPayment
IsPayment(p) == req[p].op = "makeLoanPayment"
PaymentCommits(p) == IsPayment(p) /\ pc[p] = "mp_write" /\ result'[p].status = "ok"
DebitFails(p) ==
  IsPayment(p) /\ pc[p] \in {"mp_debit_sel", "mp_debit_upd"} /\ pc'[p] = "done"

\* row k is the pending row with the lowest payment_number and the only row
\* that changes, to paid
MarksLowestPending(l, k) ==
  /\ k \in DOMAIN schedule[l]
  /\ schedule[l][k] = "pending"
  /\ \A j \in DOMAIN schedule[l] : j < k => schedule[l][j] # "pending"
  /\ schedule'[l] = [schedule[l] EXCEPT ![k] = "paid"]

\* the payer was debited by amount, remaining_balance went down by amount
\* floored at zero, the loan is paid_off exactly when that is zero and
\* otherwise points at the next pending row, if one is left
PaymentLoanEffect(p) ==
  LET l == req[p].target
      amt == req[p].amount
      nb == IF loans[l].remaining - amt < 0 THEN 0 ELSE loans[l].remaining - amt
  IN  /\ delta[p].debit = 0 - amt
      /\ loans'[l].remaining = nb
      /\ (loans'[l].status = "paid_off") <=> (nb = 0)
      /\ nb # 0 => loans'[l].status = "active"
      /\ (nb # 0 /\ \E j \in DOMAIN schedule'[l] : schedule'[l][j] = "pending")
           => /\ schedule'[l][loans'[l].nextDue] = "pending"
              /\ \A j \in DOMAIN schedule'[l] :
                   j < loans'[l].nextDue => schedule'[l][j] # "pending"

\* C17 as stated, where every payment is of a positive amount: every
\* successful makeLoanPayment marks exactly one schedule row paid, the pending
\* row with the lowest payment_number
C17_PaymentMarksExactlyOne ==
  [][\A p \in Procs :
       /\ (PaymentCommits(p) /\ \A q \in Procs : IsPayment(q) => req[q].amount > 0) =>
            /\ PaymentLoanEffect(p)
            /\ \E k \in DOMAIN schedule[req[p].target] : MarksLowestPending(req[p].target, k)
       /\ DebitFails(p) => (loans' = loans /\ schedule' = schedule)]_vars

\* C17, amended: every successful makeLoanPayment debits the payer by amount,
\* marks the pending row with the lowest payment_number paid when a pending row
\* exists and changes no schedule row otherwise, reduces remaining_balance by
\* amount floored at zero, and sets paid_off exactly when that is zero; a
\* failed debit leaves loan and schedule unchanged
C17_PaymentEffect ==
  [][\A p \in Procs :
       /\ PaymentCommits(p) =>
            /\ PaymentLoanEffect(p)
            /\ \/ \E k \in DOMAIN schedule[req[p].target] :
                     MarksLowestPending(req[p].target, k)
               \/ /\ \A j \in DOMAIN schedule[req[p].target] :
                        schedule[req[p].target][j] # "pending"
                  /\ schedule' = schedule
       /\ DebitFails(p) => (loans' = loans /\ schedule' = schedule)]_vars

\* a payment of 1 on a two-month loan of 2 marked the first row and left the
\* loan active, pointing at the second; another payment was refused for
\* insufficient funds
C17_Witness ==
  \E p \in Procs, q \in Procs, l \in Loans :
    /\ IsPayment(p) /\ result[p].status = "ok" /\ req[p].target = l /\ req[p].amount = 1
    /\ delta[p].debit = 0 - 1
    /\ schedule[l] = <<"paid", "pending">>
    /\ loans[l].status = "active" /\ loans[l].remaining = 1 /\ loans[l].nextDue = 2
    /\ IsPayment(q) /\ result[q].err = "Insufficient funds"

\* C18: the step that completes an earlyRepayment debited the payer by the
\* remaining_balance it found, and leaves remaining_balance 0, status paid_off
\* and every row that was pending cancelled; an earlyRepayment refused for
\* insufficient funds or because the loan is not active changes neither loan,
\* schedule nor balance
IsEarlyRepayment(p) == req[p].op = "earlyRepayment"
EarlyCommits(p) == IsEarlyRepayment(p) /\ pc[p] = "er_write" /\ result'[p].status = "ok"
EarlyRefused(p) ==
  /\ IsEarlyRepayment(p) /\ pc[p] # "done" /\ pc'[p] = "done"
  /\ result'[p].err \in {"Insufficient funds", "Loan is not active"}

C18_EarlyRepaymentEffect ==
  [][\A p \in Procs :
       LET l == req[p].target IN
         /\ EarlyCommits(p) =>
              /\ delta[p].debit = 0 - loans[l].remaining
              /\ loans'[l].remaining = 0
              /\ loans'[l].status = "paid_off"
              /\ DOMAIN schedule'[l] = DOMAIN schedule[l]
              /\ \A j \in DOMAIN schedule[l] :
                   schedule'[l][j] = IF schedule[l][j] = "pending" THEN "cancelled"
                                     ELSE schedule[l][j]
         /\ EarlyRefused(p) =>
              (loans' = loans /\ schedule' = schedule /\ balance' = balance
               /\ available' = available /\ legs[p] = {})]_vars

\* an earlyRepayment paid a loan off and cancelled a pending row; a second one
\* found the loan no longer active
C18_Witness ==
  \E p \in Procs, q \in Procs, l \in Loans :
    /\ IsEarlyRepayment(p) /\ result[p].status = "ok" /\ req[p].target = l
    /\ delta[p].debit = 0 - loanRead[p].remaining /\ delta[p].debit < 0
    /\ loans[l].status = "paid_off" /\ loans[l].remaining = 0
    /\ \E j \in DOMAIN schedule[l] : schedule[l][j] = "cancelled"
    /\ IsEarlyRepayment(q) /\ result[q].err = "Loan is not active"

\* C19: a finished openDeposit either succeeded, debited the funding account
\* by principal_amount and left one active deposit row whose current_balance
\* is principal_amount, or failed, debited nothing and left no deposit row
IsOpenDeposit(p) == req[p].op = "openDeposit" /\ pc[p] = "done"

C19_OpenDepositAllOrNothing ==
  \A p \in Procs :
    IsOpenDeposit(p) =>
      IF result[p].status = "ok"
      THEN /\ delta[p].debit = 0 - req[p].amount
           /\ deposits[p] = NewDeposit(req[p].from, req[p].amount)
      ELSE /\ delta[p].debit = 0
           /\ deposits[p] = NoDeposit

\* C20: whenever no closeDeposit is under way on a deposit, its return amount
\* has been credited to the funding account exactly when the deposit is
\* closed; and the funding account is never credited more than once for one
\* deposit, whatever calls, sweeps and failures interleave
IsCloseDeposit(p, d) == req[p].op = "closeDeposit" /\ req[p].target = d
Payouts(d) == {p \in Procs : IsCloseDeposit(p, d) /\ "credit" \in legs[p]}
Closing(d) == \E p \in Procs : IsCloseDeposit(p, d) /\ pc[p] # "done"

C20_CloseDepositPaysOnce ==
  \A d \in Procs :
    /\ Cardinality(Payouts(d)) <= 1
    /\ ~Closing(d) => (Payouts(d) # {} <=> deposits[d].status = "closed")

\* C30: a transferToPhone that succeeds hands its caller the completed
\* transaction row; one refused because the phone matches no user, or because
\* the recipient has no active account in the source currency, has changed no
\* balance
IsTransferToPhone(p) == req[p].op = "transferToPhone" /\ pc[p] = "done"

C30_TransferToPhoneReturns ==
  \A p \in Procs :
    IsTransferToPhone(p) =>
      /\ result[p].status = "ok" =>
           (result[p].value = "row" /\ txns[TxId(p)].status = "completed")
      /\ result[p].err \in {"Recipient not found",
                             "Recipient does not have an active account"} =>
           (legs[p] = {} /\ delta[p] = NoDelta)

\* C26: calculateLoan at annual rate 0 returns principal / termMonths as the
\* monthly payment, a number, and a schedule whose principal portions sum to
\* the principal
RECURSIVE SumPrincipal(_)
SumPrincipal(rows) ==
  IF rows = << >> THEN 0 ELSE Head(rows).principal_payment + SumPrincipal(Tail(rows))
HasNaN(rows) == \E i \in DOMAIN rows : rows[i].principal_payment = NaN
LoanApplied == "calculateLoan" \in calc.applied

C26_ZeroRatePayment ==
  (LoanApplied /\ calc.rate = 0) =>
    /\ calc.loan.monthly_payment # NaN
    /\ calc.loan.monthly_payment = Round2(Q(calc.principal, calc.term))
    /\ ~HasNaN(calc.loan.schedule)
    /\ SumPrincipal(calc.loan.schedule) = calc.principal

\* C27: whatever the principal, positive rate and term, the last schedule row
\* has remaining_balance 0 and the rounded principal_payment values of the
\* rows sum to the principal to the cent
C27_ScheduleSumsToPrincipal ==
  (LoanApplied /\ calc.rate > 0) =>
    /\ calc.loan.schedule[calc.term].remaining_balance = 0
    /\ ~HasNaN(calc.loan.schedule)
    /\ SumPrincipal(calc.loan.schedule) = calc.principal

\* C28: for any positive principal, rate and term (one month included) the
\* compound calculator's interest_earned is strictly greater than the simple
\* calculator's
BothApplied == {"calculateDeposit", "calculateCompoundDeposit"} \subseteq calc.applied

ExpectedReturn(d, isEarlyWithdrawal) ==
  IF isEarlyWithdrawal
  THEN IF d.type = "fixed" THEN d.principal ELSE d.current
  ELSE IF d.type = "fixed"
       THEN calculateCompoundDeposit(d.principal, d.rate, d.term).final_amount
       ELSE calculateDeposit(d.principal, d.rate, d.term, FALSE).final_amount

RefusedUnchanged(p) ==
  /\ result'[p].status = "error"
  /\ deposits' = deposits
  /\ balance' = balance
  /\ available' = available

\* C21: closeDeposit on a deposit that is not active fails and changes
\* nothing; on an active one its credit adds to the funding account the
\* principal (early, fixed), the current balance (early, flexible or savings)
\* or the matching calculator's final amount (at term)
C21_CloseDepositCredits ==
  [][\A p \in Procs :
       LET d == req[p].target IN
       /\ (/\ pc[p] = "cd_select" /\ pc'[p] # "cd_select"
           /\ d \in Procs /\ deposits[d].status \in {"closed", "matured"})
          => RefusedUnchanged(p)
       /\ (/\ pc[p] = "cd_credit_upd" /\ pc'[p] # "cd_credit_upd"
           /\ result'[p].err # "fault")
          => /\ pc'[p] = "cd_write"
             /\ balance'[deposits[d].account] =
                  balance[deposits[d].account] + ExpectedReturn(deposits[d], req[p].early)
    ]_vars

\* C22: renewDeposit on a deposit whose is_auto_renewal is false fails and
\* changes nothing; otherwise its write sets principal_amount and
\* current_balance to the final amount of the deposit's principal, rate and
\* term, gives it a maturity date in the future, leaves it active and changes
\* no account balance
C22_RenewDepositEffect ==
  [][\A p \in Procs :
       LET d == req[p].target IN
       /\ (/\ pc[p] = "rn_select" /\ pc'[p] # "rn_select"
           /\ d \in Procs /\ deposits[d].status # "absent" /\ ~deposits[d].auto)
          => RefusedUnchanged(p)
       /\ (pc[p] = "rn_write" /\ pc'[p] # "rn_write" /\ result'[p].err # "fault")
          => /\ result'[p].status = "ok"
             /\ deposits'[d].principal = ExpectedReturn(deposits[d], FALSE)
             /\ deposits'[d].current = ExpectedReturn(deposits[d], FALSE)
             /\ deposits'[d].status = "active"
             /\ ~deposits'[d].due
             /\ balance' = balance
             /\ available' = available
    ]_vars

\* C23: accrueInterest on a deposit that is not active fails with the
\* not-active error and changes nothing; on an active fixed deposit it adds
\* current_balance * monthlyRate to current_balance; on an active flexible or
\* savings deposit it leaves current_balance as it is; it changes no account
\* balance
C23_AccrueInterestEffect ==
  [][\A p \in Procs :
       LET d == req[p].target IN
       /\ (/\ pc[p] = "ai_select" /\ pc'[p] # "ai_select" /\ result'[p].err # "fault"
           /\ d \in Procs /\ deposits[d].status \in {"closed", "matured"})
          => /\ RefusedUnchanged(p)
             /\ result'[p].err = "Deposit is not active"
       /\ (pc[p] = "ai_write" /\ pc'[p] # "ai_write" /\ result'[p].err # "fault")
          => /\ result'[p].status = "ok"
             /\ deposits'[d].current =
                  IF deposits[d].type = "fixed"
                  THEN Round2(QAdd(Qi(deposits[d].current), InterestAmount(deposits[d])))
                  ELSE deposits[d].current
       /\ (pc[p] \in {"ai_select", "ai_write"} /\ pc'[p] # pc[p])
          => (balance' = balance /\ available' = available)
    ]_vars

\* a sweep has returned (or its selection failed)
SweepOver(p) ==
  /\ req[p].op = "processMaturedDeposits"
  /\ pc[p] = "done"
  /\ ~Sweeping(p)

SelectedIds(p) == [i \in DOMAIN sweep[p].sel |-> sweep[p].sel[i].id]

\* the calls started so far are the rows of the selection in order, one call
\* a row; a sweep that has returned has started a call for every row
EachAttemptedOnce ==
  \A p \in Procs :
    /\ Len(sweep[p].tried) <= Len(sweep[p].sel)
    /\ sweep[p].tried = SubSeq(SelectedIds(p), 1, Len(sweep[p].tried))
    /\ \A i, j \in DOMAIN sweep[p].tried : i # j => sweep[p].tried[i] # sweep[p].tried[j]
    /\ (SweepOver(p) /\ sweep[p].idx >= 1) => sweep[p].tried = SelectedIds(p)

\* a step of a sweep writes no deposit but the one its current call is on,
\* and the step on which a call fails writes none
NothingUndone ==
  \A p \in Procs :
    (req[p].op = "processMaturedDeposits" /\ pc'[p] # pc[p])
    => /\ \A d \in Procs : d # req[p].target => deposits'[d] = deposits[d]
       /\ result'[p].status = "error" /\ result[p].status # "error"
          => deposits' = deposits

C25_SweepActsOnMatured ==
  [][\A p \in Procs :
       LET d == req[p].target IN
       (/\ req[p].op = "processMaturedDeposits"
        /\ pc[p] \in {"rn_write", "cd_credit_upd", "cd_write"}
        /\ pc'[p] # pc[p]
        /\ result'[p].status # "error")
       => /\ deposits[d].status = "active"
          /\ deposits[d].due
          /\ (pc[p] = "rn_write") <=> deposits[d].auto
    ]_vars

\* the reference numbers generated so far
Generated == {p \in Procs : reference[p] # NoRef}

\* C29: the reference numbers generated by different calls are different,
\* and no two committed transactions rows have the same reference_number
C29_ReferenceNumbersDistinct ==
  /\ \A p, q \in Generated : p # q => reference[p] # reference[q]
  /\ \A i, j \in DOMAIN refRows : i # j => refRows[i] # refRows[j]

\* C33: a createTransaction with a source account has credited its
\* destination only after its debit was committed; one whose debit failed has
\* credited nothing
C33_DebitBeforeCredit ==
  \A p \in Procs :
    (IsCreateTransaction(p) /\ req[p].from # NullId)
    => /\ "credit" \in legs[p] => ("debit" \in legs[p] /\ delta[p].debit = 0 - req[p].amount)
       /\ (Finished(p) /\ "debit" \notin legs[p]) => (legs[p] = {} /\ delta[p].credit = 0)

\* a transfer to an existing account ended on its refused debit
C33_Witness ==
  \E p \in Procs :
    /\ IsCreateTransaction(p) /\ Finished(p)
    /\ req[p].from \in Accounts /\ req[p].to \in Accounts
    /\ result[p].err = "Insufficient funds"
    /\ legs[p] = {}

\* C38: a ledger leg of createTransaction changes the balance only of an
\* account that is active when the leg commits, also when blockAccount or
\* closeAccount committed after createTransaction's status check
C38_MutatesOnlyActive ==
  [][\A p \in Procs :
       (IsCreateTransaction(p) /\ pc[p] \in UpdateLabels /\ legs'[p] # legs[p])
       => status[LegAccount(p)] = "active"
    ]_vars

\* the approveLoan calls that have committed a credit for loan l
Disbursements(l) ==
  {p \in Procs : IsApproveLoan(p) /\ req[p].target = l /\ "credit" \in legs[p]}

\* C34: under any interleaving of approveLoan calls on one loan, a retry
\* after a failed call included, at most one of them has credited the
\* principal to an account
C34_DisbursedAtMostOnce == \A l \in Loans : Cardinality(Disbursements(l)) <= 1

\* C39: in every state a loan that is paid_off has remaining_balance 0 and
\* no schedule row pending, whether makeLoanPayment or earlyRepayment paid
\* it off
C39_PaidOffIsSettled ==
  \A l \in Loans :
    loans[l].status = "paid_off"
    => /\ loans[l].remaining = 0
       /\ \A k \in DOMAIN schedule[l] : schedule[l][k] # "pending"

\* C40: a call that takes its amount from the caller never raises a balance
\* by its debit, and with an amount of zero or less it fails or leaves the
\* loan and its schedule as they were
C40_DebitNeverCredits ==
  /\ \A p \in Procs : delta[p].debit <= 0
  /\ \A p \in Procs :
       (IsPayment(p) /\ Finished(p) /\ req[p].amount <= 0 /\ result[p].status = "ok")
       => (loans[req[p].target] = loanRead[p] /\ delta[p].debit = 0)

\* C35: closed is terminal: once a deposit is closed no step returns it to
\* active or changes its principal_amount or current_balance
C35_ClosedIsTerminal ==
  [][ \A d \in Procs :
        deposits[d].status = "closed"
        => /\ deposits'[d].status = "closed"
           /\ deposits'[d].principal = deposits[d].principal
           /\ deposits'[d].current = deposits[d].current
    ]_vars

\* C36: a deposit is renewed at most once per elapsed term: a renewal is
\* written only to a deposit whose maturity date has been reached, so a
\* second renewDeposit or sweep on the renewed deposit capitalises nothing
C36_RenewedOncePerTerm ==
  [][ \A p \in Procs :
        (pc[p] = "rn_write" /\ deposits'[req[p].target] # deposits[req[p].target])
        => deposits[req[p].target].due
    ]_vars

\* C37: closeDeposit returns the full-term final amount only for a deposit
\* whose maturity date has been reached: a deposit closed before it yields
\* at most the early-closure amount
C37_FullAmountOnlyAtMaturity ==
  [][ \A p \in Procs :
        (/\ pc[p] = "cd_write"
         /\ deposits[req[p].target].status = "active"
         /\ deposits'[req[p].target].status = "closed"
         /\ ~deposits[req[p].target].due)
        => deposits'[req[p].target].current <= ReturnAmount(deposits[req[p].target], TRUE)
    ]_vars

\* C31: no operation suspends indefinitely: every started request eventually
\* commits or returns a failure
C31_EveryRequestReturns == \A p \in Procs : (pc[p] # "idle") ~> Finished(p)

\* a request is waiting for the row lock of its ledger call
WaitsForRow(p) ==
  /\ pc[p] \in SelectLabels
  /\ LegAccount(p) \in Accounts
  /\ ~RowLockFree(LegAccount(p))

\* the account rows on which a request holds a lock, on either of its
\* connections
RowsHeld(p) ==
  {a \in Accounts : rowLock[a] = p}
    \cup (IF foreignKeys /\ pc[p] \in KeyShareLabels
          THEN {req[p].from, req[p].to} \cap Accounts ELSE {})

\* two createTransaction transfers in opposite directions are under way
OppositeTransfers ==
  /\ \A p \in Procs : IsCreateTransaction(p) /\ ~Finished(p)
  /\ req[1].from \in Accounts /\ req[1].to \in Accounts /\ req[1].from # req[1].to
  /\ req[2].from = req[1].to /\ req[2].to = req[1].from

\* C32: no request waits for an account row lock while it holds a lock on
\* another account row, and two simultaneous transfers in opposite
\* directions both terminate
C32_OppositeTransfersTerminate ==
  /\ [](\A p \in Procs : WaitsForRow(p) => RowsHeld(p) \ {LegAccount(p)} = {})
  /\ OppositeTransfers ~> (\A p \in Procs : Finished(p))

====
